---- MODULE Spec2Model ----
(***************************************************************************)
(* Model of the api-rust REST backend (users and posts with a nested JSON  *)
(* metadata document): the request extractor (parse, then validate), the   *)
(* DTO <-> entity <-> JSON conversions, the two entity services, the       *)
(* response and error mapping, and the row store the migrations create.    *)
(*                                                                         *)
(* A string is a sequence of characters (one-letter strings); an           *)
(* Option<T> is a sequence of length 0 (None) or 1 (Some); a JSON value is *)
(* a record tagged by its kind.                                            *)
(***************************************************************************)
EXTENDS Integers, Sequences, FiniteSets, TLC

\* ------------------------------------------------------------------------
\* Bounds of the model
\* ------------------------------------------------------------------------
\* number of requests that can be in flight at once
NumProcs == 2
\* ids the users table's auto-increment primary key hands out
MaxId == 2
\* ids the posts table's auto-increment primary key hands out
MaxPostId == 1
\* the wall clock takes the values 0..MaxClock
MaxClock == 1
\* the width in bits the model gives an unsigned 64-bit integer
WordBits == 7

Procs == 1..NumProcs

\* ------------------------------------------------------------------------
\* Option, Result and strings
\* ------------------------------------------------------------------------
None == << >>
Some(x) == << x >>
IsSome(o) == Len(o) = 1
IsNone(o) == Len(o) = 0

Ok(x) == [ok |-> TRUE, v |-> x]
Err == [ok |-> FALSE]

\* characters are one-letter strings; Letters are the characters both parts of
\* an e-mail address accept
Letters == {"a", "b", "c"}

\* n copies of the character c
Rep(c, n) == [i \in 1..n |-> c]

\* String::chars().count(), what validator's length rule measures
CharCount(s) == Len(s)

\* ------------------------------------------------------------------------
\* JSON values (serde_json::Value)
\* ------------------------------------------------------------------------
JNull == [t |-> "null"]
JBool(b) == [t |-> "bool", b |-> b]
JNum(n) == [t |-> "num", n |-> n]
JStr(s) == [t |-> "str", s |-> s]
JArr(a) == [t |-> "arr", a |-> a]
JObj(f) == [t |-> "obj", o |-> f]
\* the empty JSON object, json!({})
JEmptyObj == [t |-> "obj", o |-> << >>]

\* serde: Option<T> serialises as null or as T
SerOpt(o, Ser(_)) == IF IsSome(o) THEN Ser(o[1]) ELSE JNull
SerSeq(a, Ser(_)) == JArr([i \in 1..Len(a) |-> Ser(a[i])])

\* serde derive, field of type T: the key must be there
DeReq(j, k, De(_)) == IF k \in DOMAIN j.o THEN De(j.o[k]) ELSE Err
\* serde derive, field of type Option<T>: a missing key and null are None
DeOpt(j, k, De(_)) ==
    IF k \notin DOMAIN j.o THEN Ok(None)
    ELSE IF j.o[k].t = "null" THEN Ok(None)
    ELSE LET r == De(j.o[k]) IN IF r.ok THEN Ok(Some(r.v)) ELSE Err
\* serde derive, #[serde(default)] field of type bool: a missing key is false
DeDefaultBool(j, k) ==
    IF k \notin DOMAIN j.o THEN Ok(FALSE)
    ELSE IF j.o[k].t = "bool" THEN Ok(j.o[k].b) ELSE Err
DeString(j) == IF j.t = "str" THEN Ok(j.s) ELSE Err
DeBool(j) == IF j.t = "bool" THEN Ok(j.b) ELSE Err
\* i32: a JSON number within the 32-bit range
DeI32(j) == IF j.t = "num" /\ j.n >= -2147483647 - 1 /\ j.n <= 2147483647 THEN Ok(j.n) ELSE Err
DeSeq(j, De(_)) ==
    IF j.t # "arr" THEN Err
    ELSE IF \A i \in 1..Len(j.a) : De(j.a[i]).ok
         THEN Ok([i \in 1..Len(j.a) |-> De(j.a[i]).v])
         ELSE Err
DeStringSeq(j) == DeSeq(j, DeString)

\* ------------------------------------------------------------------------
\* The nested document: entities/post.rs, and its serde (de)serialisation
\* ------------------------------------------------------------------------
\* impl Default for PostMetadata
DefaultPostMetadata == [tags |-> << >>, seo |-> None, settings |-> None]

\* #[derive(Serialize)] for Tag, SeoMetadata, PostSettings, PostMetadata
SerTag(t) == JObj([name |-> JStr(t.name), color |-> SerOpt(t.color, JStr)])
\* SeoMetadata with #[serde(skip_serializing_if = "Vec::is_empty")] on keywords
SerSeoMetadata_SkipsEmptyKeywords(s) ==
    IF s.keywords = << >>
    THEN JObj([meta_title |-> SerOpt(s.meta_title, JStr),
               meta_description |-> SerOpt(s.meta_description, JStr)])
    ELSE JObj([meta_title |-> SerOpt(s.meta_title, JStr),
               meta_description |-> SerOpt(s.meta_description, JStr),
               keywords |-> SerSeq(s.keywords, JStr)])
SerSeoMetadata(s) ==
    JObj([meta_title |-> SerOpt(s.meta_title, JStr),
          meta_description |-> SerOpt(s.meta_description, JStr),
          keywords |-> SerSeq(s.keywords, JStr)])
SerPostSettings(s) ==
    JObj([allow_comments |-> JBool(s.allow_comments),
          featured |-> JBool(s.featured),
          reading_time_minutes |-> SerOpt(s.reading_time_minutes, JNum)])
SerPostMetadata(m) ==
    JObj([tags |-> SerSeq(m.tags, SerTag),
          seo |-> SerOpt(m.seo, SerSeoMetadata),
          settings |-> SerOpt(m.settings, SerPostSettings)])

\* #[derive(Deserialize)] for Tag, SeoMetadata, PostSettings, PostMetadata
DeTag(j) ==
    IF j.t # "obj" THEN Err
    ELSE LET name == DeReq(j, "name", DeString)
             color == DeOpt(j, "color", DeString)
         IN IF name.ok /\ color.ok
            THEN Ok([name |-> name.v, color |-> color.v]) ELSE Err
DeSeoMetadata(j) ==
    IF j.t # "obj" THEN Err
    ELSE LET mt == DeOpt(j, "meta_title", DeString)
             md == DeOpt(j, "meta_description", DeString)
             kw == DeReq(j, "keywords", DeStringSeq)
         IN IF mt.ok /\ md.ok /\ kw.ok
            THEN Ok([meta_title |-> mt.v, meta_description |-> md.v, keywords |-> kw.v])
            ELSE Err
DePostSettings(j) ==
    IF j.t # "obj" THEN Err
    ELSE LET ac == DeReq(j, "allow_comments", DeBool)
             ft == DeReq(j, "featured", DeBool)
             rt == DeOpt(j, "reading_time_minutes", DeI32)
         IN IF ac.ok /\ ft.ok /\ rt.ok
            THEN Ok([allow_comments |-> ac.v, featured |-> ft.v, reading_time_minutes |-> rt.v])
            ELSE Err
DeTagSeq(j) == DeSeq(j, DeTag)
DePostMetadata(j) ==
    IF j.t # "obj" THEN Err
    ELSE LET tags == DeReq(j, "tags", DeTagSeq)
             seo == DeOpt(j, "seo", DeSeoMetadata)
             settings == DeOpt(j, "settings", DePostSettings)
         IN IF tags.ok /\ seo.ok /\ settings.ok
            THEN Ok([tags |-> tags.v, seo |-> seo.v, settings |-> settings.v])
            ELSE Err

\* a get_metadata whose fallback is a document of its own, not the default
get_metadata_OtherFallback(post) ==
    LET r == DePostMetadata(post.metadata)
    IN  IF r.ok THEN r.v
        ELSE [tags |-> << [name |-> << "a" >>, color |-> None] >>, seo |-> None,
              settings |-> None]
\* Model::get_metadata: from_value(..).unwrap_or_default()
get_metadata(post) ==
    LET r == DePostMetadata(post.metadata) IN IF r.ok THEN r.v ELSE DefaultPostMetadata

\* ------------------------------------------------------------------------
\* Request DTOs: #[derive(Deserialize)] of dto/post.rs and dto/user.rs
\* ------------------------------------------------------------------------
DeCreateTagDto(j) == DeTag(j)
DeCreateSeoMetadataDto(j) ==
    IF j.t # "obj" THEN Err
    ELSE LET mt == DeOpt(j, "meta_title", DeString)
             md == DeOpt(j, "meta_description", DeString)
             kw == DeOpt(j, "keywords", DeStringSeq)
         IN IF mt.ok /\ md.ok /\ kw.ok
            THEN Ok([meta_title |-> mt.v, meta_description |-> md.v, keywords |-> kw.v])
            ELSE Err
DeCreatePostSettingsDto(j) ==
    IF j.t # "obj" THEN Err
    ELSE LET ac == DeDefaultBool(j, "allow_comments")
             ft == DeDefaultBool(j, "featured")
             rt == DeOpt(j, "reading_time_minutes", DeI32)
         IN IF ac.ok /\ ft.ok /\ rt.ok
            THEN Ok([allow_comments |-> ac.v, featured |-> ft.v, reading_time_minutes |-> rt.v])
            ELSE Err
DeCreateTagDtoSeq(j) == DeSeq(j, DeCreateTagDto)
DeCreatePostMetadataDto(j) ==
    IF j.t # "obj" THEN Err
    ELSE LET tags == DeOpt(j, "tags", DeCreateTagDtoSeq)
             seo == DeOpt(j, "seo", DeCreateSeoMetadataDto)
             settings == DeOpt(j, "settings", DeCreatePostSettingsDto)
         IN IF tags.ok /\ seo.ok /\ settings.ok
            THEN Ok([tags |-> tags.v, seo |-> seo.v, settings |-> settings.v])
            ELSE Err
DeCreatePostDto(j) ==
    IF j.t # "obj" THEN Err
    ELSE LET title == DeReq(j, "title", DeString)
             content == DeReq(j, "content", DeString)
             author_id == DeReq(j, "author_id", DeI32)
             metadata == DeOpt(j, "metadata", DeCreatePostMetadataDto)
             published == DeDefaultBool(j, "published")
         IN IF title.ok /\ content.ok /\ author_id.ok /\ metadata.ok /\ published.ok
            THEN Ok([title |-> title.v, content |-> content.v, author_id |-> author_id.v,
                     metadata |-> metadata.v, published |-> published.v])
            ELSE Err
DeUpdatePostDto(j) ==
    IF j.t # "obj" THEN Err
    ELSE LET title == DeOpt(j, "title", DeString)
             content == DeOpt(j, "content", DeString)
             metadata == DeOpt(j, "metadata", DeCreatePostMetadataDto)
             published == DeOpt(j, "published", DeBool)
         IN IF title.ok /\ content.ok /\ metadata.ok /\ published.ok
            THEN Ok([title |-> title.v, content |-> content.v,
                     metadata |-> metadata.v, published |-> published.v])
            ELSE Err
DeCreateUserDto(j) ==
    IF j.t # "obj" THEN Err
    ELSE LET username == DeReq(j, "username", DeString)
             email == DeReq(j, "email", DeString)
         IN IF username.ok /\ email.ok
            THEN Ok([username |-> username.v, email |-> email.v]) ELSE Err
DeUpdateUserDto(j) ==
    IF j.t # "obj" THEN Err
    ELSE LET username == DeOpt(j, "username", DeString)
             email == DeOpt(j, "email", DeString)
         IN IF username.ok /\ email.ok
            THEN Ok([username |-> username.v, email |-> email.v]) ELSE Err

\* impl Default for CreatePostMetadataDto
DefaultCreatePostMetadataDto == [tags |-> None, seo |-> None, settings |-> None]

\* From<CreateTagDto> for Tag, From<CreateSeoMetadataDto> for SeoMetadata,
\* From<CreatePostSettingsDto> for PostSettings, From<CreatePostMetadataDto> for PostMetadata
TagFromDto(dto) == [name |-> dto.name, color |-> dto.color]
SeoMetadataFromDto(dto) ==
    [meta_title |-> dto.meta_title,
     meta_description |-> dto.meta_description,
     keywords |-> IF IsSome(dto.keywords) THEN dto.keywords[1] ELSE << >>]
PostSettingsFromDto(dto) ==
    [allow_comments |-> dto.allow_comments,
     featured |-> dto.featured,
     reading_time_minutes |-> dto.reading_time_minutes]
PostMetadataFromDto(dto) ==
    [tags |-> IF IsSome(dto.tags)
              THEN [i \in 1..Len(dto.tags[1]) |-> TagFromDto(dto.tags[1][i])]
              ELSE << >>,
     seo |-> IF IsSome(dto.seo) THEN Some(SeoMetadataFromDto(dto.seo[1])) ELSE None,
     settings |-> IF IsSome(dto.settings) THEN Some(PostSettingsFromDto(dto.settings[1])) ELSE None]

\* CreatePostMetadataDto::to_json: to_value never fails for this type, so the
\* json!({}) fallback is dead
to_json(dto) == SerPostMetadata(PostMetadataFromDto(dto))

\* ------------------------------------------------------------------------
\* validator: ValidationErrors and the rules #[derive(Validate)] generates
\* ------------------------------------------------------------------------
\* ValidationErrorsKind::{Field, Struct, List}
FieldKind(msgs) == [kind |-> "Field", messages |-> msgs]
StructKind(child) == [kind |-> "Struct", child |-> child]
ListKind(items) == [kind |-> "List", items |-> items]

\* the state of one validate() call: the map field -> kind built so far, or a panic
NoErrors == [panic |-> FALSE, errors |-> << >>]
Panicked == [panic |-> TRUE, errors |-> << >>]
IsValid(r) == ~r.panic /\ DOMAIN r.errors = {}

\* ValidationErrors::add: pushes onto the field's Field entry, panics on another kind
Add(r, field, msg) ==
    IF r.panic THEN r
    ELSE IF field \notin DOMAIN r.errors
         THEN [r EXCEPT !.errors = (field :> FieldKind(<< msg >>)) @@ @]
    ELSE IF r.errors[field].kind = "Field"
         THEN [r EXCEPT !.errors[field].messages = Append(@, msg)]
    ELSE Panicked
\* ValidationErrors::add_nested: panics when the field already has an entry
AddNested(r, field, entry) ==
    IF r.panic THEN r
    ELSE IF field \notin DOMAIN r.errors
         THEN [r EXCEPT !.errors = (field :> entry) @@ @]
    ELSE Panicked
\* ValidationErrors::merge_self: a collection's errors come under "_tmp_validator"
MergeSelf(r, field, child) ==
    IF r.panic \/ child.panic THEN Panicked
    ELSE IF DOMAIN child.errors = {} THEN r
    ELSE IF "_tmp_validator" \in DOMAIN child.errors
         THEN AddNested(r, field, child.errors["_tmp_validator"])
    ELSE AddNested(r, field, StructKind(child.errors))
\* impl Validate for Vec<T>: a List of the failing elements by index
ValidateVec(a, V(_)) ==
    LET bad == {i \in 1..Len(a) : DOMAIN V(a[i]).errors # {}}
    IN  IF \E i \in 1..Len(a) : V(a[i]).panic THEN Panicked
        ELSE IF bad = {} THEN NoErrors
        ELSE [panic |-> FALSE,
              errors |-> ("_tmp_validator" :> ListKind([i \in {b - 1 : b \in bad} |-> V(a[i + 1]).errors]))]
\* the rule applies to an Option field only when it is Some
When(cond, r, field, msg) == IF cond THEN Add(r, field, msg) ELSE r

\* validate_email: user part of 1..64 and domain part of 1..255 characters around
\* the last "@", the domain made of dot-separated labels of 1..63 letters
validate_email(s) ==
    /\ \E i \in 1..Len(s) : s[i] = "@"
    /\ LET at == CHOOSE i \in 1..Len(s) : s[i] = "@" /\ \A k \in (i + 1)..Len(s) : s[k] # "@"
           user == SubSeq(s, 1, at - 1)
           domain == SubSeq(s, at + 1, Len(s))
       IN  /\ Len(user) >= 1 /\ Len(user) <= 64
           /\ Len(domain) >= 1 /\ Len(domain) <= 255
           /\ \A i \in 1..Len(user) : user[i] \in Letters \cup {"."}
           /\ \A i \in 1..Len(domain) : domain[i] \in Letters \cup {"."}
           /\ domain[1] # "." /\ domain[Len(domain)] # "."
           /\ \A i \in 1..(Len(domain) - 1) : ~(domain[i] = "." /\ domain[i + 1] = ".")
           /\ \A i \in 1..(Len(domain) - 63) : \E k \in i..(i + 63) : domain[k] = "."

\* CreateTagDto
ValidateCreateTagDto(dto) ==
    LET r1 == When(CharCount(dto.name) < 1 \/ CharCount(dto.name) > 50, NoErrors, "name",
                   "Le nom du tag doit faire entre 1 et 50 caracteres")
    IN  When(IsSome(dto.color) /\ CharCount(dto.color[1]) > 7, r1, "color",
             "La couleur doit etre un code hex (ex: #FF0000)")
\* CreateSeoMetadataDto
ValidateCreateSeoMetadataDto(dto) ==
    LET r1 == When(IsSome(dto.meta_title) /\ CharCount(dto.meta_title[1]) > 70, NoErrors,
                   "meta_title", "Le meta title ne doit pas depasser 70 caracteres")
        r2 == When(IsSome(dto.meta_description) /\ CharCount(dto.meta_description[1]) > 160, r1,
                   "meta_description", "La meta description ne doit pas depasser 160 caracteres")
    IN  When(IsSome(dto.keywords) /\ Len(dto.keywords[1]) > 10, r2,
             "keywords", "Maximum 10 keywords autorises")
\* settings without the range rule
ValidateCreatePostSettingsDto_NoRange(dto) == NoErrors
\* CreatePostSettingsDto
ValidateCreatePostSettingsDto(dto) ==
    When(IsSome(dto.reading_time_minutes)
            /\ (dto.reading_time_minutes[1] < 1 \/ dto.reading_time_minutes[1] > 60),
         NoErrors, "reading_time_minutes",
         "Le temps de lecture doit etre entre 1 et 60 minutes")
\* CreatePostMetadataDto: tags carries a length rule and a nested rule, both
\* entered under "tags"
ValidateCreatePostMetadataDto(dto) ==
    LET r1 == When(IsSome(dto.tags) /\ Len(dto.tags[1]) > 10, NoErrors,
                   "tags", "Maximum 10 tags autorises")
        r2 == IF IsSome(dto.tags)
              THEN MergeSelf(r1, "tags", ValidateVec(dto.tags[1], ValidateCreateTagDto))
              ELSE r1
        r3 == IF IsSome(dto.seo)
              THEN MergeSelf(r2, "seo", ValidateCreateSeoMetadataDto(dto.seo[1]))
              ELSE r2
    IN  IF IsSome(dto.settings)
        THEN MergeSelf(r3, "settings", ValidateCreatePostSettingsDto(dto.settings[1]))
        ELSE r3
\* CreatePostDto
ValidateCreatePostDto(dto) ==
    LET r1 == When(CharCount(dto.title) < 3 \/ CharCount(dto.title) > 255, NoErrors,
                   "title", "Le titre doit faire entre 3 et 255 caracteres")
        r2 == When(CharCount(dto.content) < 10, r1,
                   "content", "Le contenu doit faire au moins 10 caracteres")
        r3 == When(dto.author_id < 1, r2, "author_id", "L'ID auteur doit etre positif")
    IN  IF IsSome(dto.metadata)
        THEN MergeSelf(r3, "metadata", ValidateCreatePostMetadataDto(dto.metadata[1]))
        ELSE r3
\* UpdatePostDto
ValidateUpdatePostDto(dto) ==
    LET r1 == When(IsSome(dto.title)
                      /\ (CharCount(dto.title[1]) < 3 \/ CharCount(dto.title[1]) > 255),
                   NoErrors, "title", "Le titre doit faire entre 3 et 255 caracteres")
        r2 == When(IsSome(dto.content) /\ CharCount(dto.content[1]) < 10, r1,
                   "content", "Le contenu doit faire au moins 10 caracteres")
    IN  IF IsSome(dto.metadata)
        THEN MergeSelf(r2, "metadata", ValidateCreatePostMetadataDto(dto.metadata[1]))
        ELSE r2
\* CreateUserDto
ValidateCreateUserDto(dto) ==
    LET r1 == When(CharCount(dto.username) < 3 \/ CharCount(dto.username) > 50, NoErrors,
                   "username", "Username must be between 3 and 50 characters")
        r2 == When(~validate_email(dto.email), r1, "email", "Invalid email format")
    IN  When(CharCount(dto.email) > 255, r2, "email", "Email must not exceed 255 characters")
\* UpdateUserDto
ValidateUpdateUserDto(dto) ==
    LET r1 == When(IsSome(dto.username)
                      /\ (CharCount(dto.username[1]) < 3 \/ CharCount(dto.username[1]) > 50),
                   NoErrors, "username", "Username must be between 3 and 50 characters")
    IN  When(IsSome(dto.email) /\ ~validate_email(dto.email[1]), r1,
             "email", "Invalid email format")

\* ------------------------------------------------------------------------
\* Errors and responses: error/mod.rs, validation/mod.rs, response/mod.rs
\* ------------------------------------------------------------------------
\* ServiceError
SvcNotFound == [kind |-> "NotFound"]
SvcAlreadyExists(msg) == [kind |-> "AlreadyExists", msg |-> msg]
SvcDatabase(db_err) == [kind |-> "Database", db_err |-> db_err]

\* a mapping that turns a store failure into a conflict
ApiErrorFrom_DatabaseAsConflict(err) ==
    CASE err.kind = "NotFound" -> [kind |-> "NotFound"]
      [] err.kind = "AlreadyExists" -> [kind |-> "Conflict", msg |-> err.msg]
      [] err.kind = "Database" -> [kind |-> "Conflict", msg |-> err.db_err]
\* a mapping that turns AlreadyExists into a bad request
ApiErrorFrom_AlreadyExistsAsBadRequest(err) ==
    CASE err.kind = "NotFound" -> [kind |-> "NotFound"]
      [] err.kind = "AlreadyExists" -> [kind |-> "BadRequest", msg |-> err.msg]
      [] err.kind = "Database" -> [kind |-> "DatabaseError", db_err |-> err.db_err]
\* impl From<ServiceError> for ApiError
ApiErrorFrom(err) ==
    CASE err.kind = "NotFound" -> [kind |-> "NotFound"]
      [] err.kind = "AlreadyExists" -> [kind |-> "Conflict", msg |-> err.msg]
      [] err.kind = "Database" -> [kind |-> "DatabaseError", db_err |-> err.db_err]

\* a response that carries the store error's text in details
ApiErrorResponse_ExposesDbErr(e) ==
    CASE e.kind = "NotFound" ->
            [status |-> 404, error |-> "Resource not found", details |-> None]
      [] e.kind = "BadRequest" ->
            [status |-> 400, error |-> "Bad request", details |-> Some(e.msg)]
      [] e.kind = "ValidationError" ->
            [status |-> 422, error |-> "Validation error", details |-> Some(e.msg)]
      [] e.kind = "Conflict" ->
            [status |-> 409, error |-> "Conflict", details |-> Some(e.msg)]
      [] e.kind = "InternalError" ->
            [status |-> 500, error |-> "Internal server error", details |-> None]
      [] e.kind = "DatabaseError" ->
            [status |-> 500, error |-> "Database error", details |-> Some(e.db_err)]
\* impl IntoResponse for ApiError: status and ErrorResponse {error, details}
ApiErrorResponse(e) ==
    CASE e.kind = "NotFound" ->
            [status |-> 404, error |-> "Resource not found", details |-> None]
      [] e.kind = "BadRequest" ->
            [status |-> 400, error |-> "Bad request", details |-> Some(e.msg)]
      [] e.kind = "ValidationError" ->
            [status |-> 422, error |-> "Validation error", details |-> Some(e.msg)]
      [] e.kind = "Conflict" ->
            [status |-> 409, error |-> "Conflict", details |-> Some(e.msg)]
      [] e.kind = "InternalError" ->
            [status |-> 500, error |-> "Internal server error", details |-> None]
      [] e.kind = "DatabaseError" ->
            [status |-> 500, error |-> "Database error", details |-> None]
\* the `?` of a controller on a service error
ServiceErrorResponse(err) == ApiErrorResponse(ApiErrorFrom(err))

\* a field_errors that stops at the first failing field
field_errors_FirstOnly(errors) ==
    LET fields == {f \in DOMAIN errors : errors[f].kind = "Field"}
    IN  IF fields = {} THEN {} ELSE {CHOOSE f \in fields : TRUE}
\* ValidationErrors::field_errors: the entries of kind Field of the top-level map
field_errors(errors) == {f \in DOMAIN errors : errors[f].kind = "Field"}
\* impl IntoResponse for ValidationError; the violations come in the map's
\* iteration order, which is not fixed, so they are kept as a set
ValidationFailedResponse(errors) ==
    [status |-> 422, error |-> "Validation failed",
     violations |-> {[field |-> f, messages |-> errors[f].messages] : f \in field_errors(errors)}]
JsonErrorResponse ==
    [status |-> 400, error |-> "Validation failed",
     violations |-> {[field |-> "_json", messages |-> << "json rejection" >>]}]
\* a panic inside the handler: the connection task ends and no response is sent
HandlerPanicked == [status |-> 0, error |-> "panic"]

\* ValidatedJson::from_request: 1. parse, 2. validate, 3. hand the DTO over
from_request(body, De(_), Validate(_)) ==
    LET parsed == De(body)
    IN  IF ~parsed.ok THEN [ok |-> FALSE, response |-> JsonErrorResponse]
        ELSE LET r == Validate(parsed.v)
             IN  IF r.panic THEN [ok |-> FALSE, response |-> HandlerPanicked]
                 ELSE IF DOMAIN r.errors # {}
                      THEN [ok |-> FALSE, response |-> ValidationFailedResponse(r.errors)]
                 ELSE [ok |-> TRUE, dto |-> parsed.v]

\* ApiResponseBuilder::one / created / no_content
OneResponse(data) == [status |-> 200, data |-> data]
CreatedResponse(data) == [status |-> 201, data |-> data]
NoContentResponse == [status |-> 204]

\* From<user::Model> for UserResponse
UserResponseFrom(user) ==
    [id |-> user.id, username |-> user.username, email |-> user.email,
     created_at |-> user.created_at]
\* From<user::Model> for AuthorResponse
AuthorResponseFrom(user) == [id |-> user.id, username |-> user.username, email |-> user.email]
\* From<PostMetadata> for PostMetadataResponse (and the three nested From impls)
PostMetadataResponseFrom(metadata) ==
    [tags |-> [i \in 1..Len(metadata.tags) |->
                  [name |-> metadata.tags[i].name, color |-> metadata.tags[i].color]],
     seo |-> IF IsSome(metadata.seo)
             THEN Some([meta_title |-> metadata.seo[1].meta_title,
                        meta_description |-> metadata.seo[1].meta_description,
                        keywords |-> metadata.seo[1].keywords])
             ELSE None,
     settings |-> IF IsSome(metadata.settings)
                  THEN Some([allow_comments |-> metadata.settings[1].allow_comments,
                             featured |-> metadata.settings[1].featured,
                             reading_time_minutes |-> metadata.settings[1].reading_time_minutes])
                  ELSE None]
\* PostResponse::from_post_with_author
PostResponseFrom(post, author) ==
    [id |-> post.id, title |-> post.title, content |-> post.content,
     published |-> post.published, created_at |-> post.created_at,
     updated_at |-> post.updated_at,
     author |-> AuthorResponseFrom(author),
     metadata |-> PostMetadataResponseFrom(get_metadata(post))]

\* ------------------------------------------------------------------------
\* State
\* ------------------------------------------------------------------------
VARIABLES
    users,          \* the users table: a set of rows [id, username, email, created_at]
    posts,          \* the posts table: a set of rows
    next_user_id,   \* the users table's auto-increment counter
    next_post_id,   \* the posts table's auto-increment counter
    clock,          \* chrono::Utc::now()
    overlap,        \* whether the server takes a request while another is in flight
    arg,            \* the input of a function evaluated on its own
    ret,            \* the result of that evaluation
    pc,             \* per request slot: the await the handler is suspended at
    req,            \* per request slot: the operation and its extracted inputs
    loc,            \* per request slot: the handler's local variables
    resp,           \* per request slot: the response sent
    ops             \* per request slot: the store operations the request has issued

vars == << users, posts, next_user_id, next_post_id, clock, overlap, arg, ret, pc, req, loc, resp, ops >>
store == << users, posts, next_user_id, next_post_id >>
env == << clock, overlap, arg, ret >>
procs == << pc, req, loc, resp, ops >>

NoReq == [op |-> "none"]
NoLoc == [set |-> FALSE]
NoResp == [status |-> -1]
NoArg == [fn |-> "none"]
NoRet == [set |-> FALSE]

\* ------------------------------------------------------------------------
\* The row store: the tables the two migrations create
\* ------------------------------------------------------------------------
DbErrUniqueEmail == "UNIQUE constraint failed: users.email"
DbErrForeignKey == "FOREIGN KEY constraint failed"
DbErrRecordNotUpdated == "None of the records are updated"

\* Entity::find_by_id(id).one(db)
find_user_by_id(id) ==
    IF \E u \in users : u.id = id THEN Some(CHOOSE u \in users : u.id = id) ELSE None
find_post_by_id(id) ==
    IF \E q \in posts : q.id = id THEN Some(CHOOSE q \in posts : q.id = id) ELSE None
\* Entity::find().filter(Column::Email.eq(email)).one(db)
find_user_by_email(email) ==
    IF \E u \in users : u.email = email
    THEN Some(CHOOSE u \in users : u.email = email) ELSE None
\* the users table without the unique index on email
email_taken_NoConstraint(email, id) == FALSE
\* string_uniq(Users::Email): would a row `id` holding `email` break the constraint
email_taken(email, id) == \E u \in users : u.email = email /\ u.id # id

\* ------------------------------------------------------------------------
\* Request bodies the clients send
\* ------------------------------------------------------------------------
Malformed == [t |-> "malformed"]

NameA == Rep("a", 3)
NameB == Rep("b", 3)
EmailA == << "a", "@", "a" >>
EmailB == << "b", "@", "b" >>

CreateUserBodies ==
    { JObj([username |-> JStr(n), email |-> JStr(e)]) :
        n \in {NameA, NameB, Rep("a", 2), Rep("a", 51)},
        e \in {EmailA, EmailB, Rep("a", 3)} }
    \cup { Malformed, JObj([username |-> JStr(NameA)]), JObj([username |-> JNum(1), email |-> JStr(EmailA)]),
           JObj([username |-> JStr(Rep("a", 2)), email |-> JStr(Rep("a", 256))]) }

UpdateUserBodies ==
    { JEmptyObj, Malformed,
      JObj([username |-> JStr(NameA)]), JObj([username |-> JStr(NameB)]),
      JObj([email |-> JStr(EmailA)]), JObj([email |-> JStr(EmailB)]),
      JObj([username |-> JStr(NameB), email |-> JStr(EmailB)]),
      JObj([username |-> JStr(Rep("a", 2))]),
      JObj([email |-> JStr(Rep("a", 3))]),
      JObj([username |-> JNull, email |-> JStr(EmailA)]) }

TitleA == Rep("a", 3)
TitleB == Rep("b", 3)
ContentA == Rep("a", 10)
ContentB == Rep("b", 10)
TagA == JObj([name |-> JStr(<< "a" >>), color |-> JStr(<< "c" >>)])
TagB == JObj([name |-> JStr(<< "b" >>)])
\* a metadata document with every block, some optional fields left out
MetaFull ==
    JObj([tags |-> JArr(<< TagA, TagB >>),
          seo |-> JObj([meta_title |-> JStr(<< "a" >>), keywords |-> JArr(<< JStr(<< "a" >>), JStr(<< "b" >>) >>)]),
          settings |-> JObj([allow_comments |-> JBool(TRUE), reading_time_minutes |-> JNum(5)])])
MetaTags == JObj([tags |-> JArr(<< TagB >>)])
\* metadata documents the validation rejects
MetaTagTooLong == JObj([tags |-> JArr(<< JObj([name |-> JStr(Rep("a", 60))]) >>)])
MetaTooManyTags == JObj([tags |-> JArr([i \in 1..11 |-> TagB])])
MetaTooManyTagsOneEmpty ==
    JObj([tags |-> JArr([i \in 1..11 |-> IF i = 1 THEN JObj([name |-> JStr(<< >>)]) ELSE TagB])])
MetaReadingTime == JObj([settings |-> JObj([reading_time_minutes |-> JNum(61)])])
MetaSeoTitle == JObj([seo |-> JObj([meta_title |-> JStr(Rep("a", 71))])])

\* an author id no user row ever has
NoSuchId == MaxId + 1

CreatePostBodies ==
    { \* accepted by the extractor
      JObj([title |-> JStr(TitleA), content |-> JStr(ContentA), author_id |-> JNum(1)]),
      JObj([title |-> JStr(TitleA), content |-> JStr(ContentA), author_id |-> JNum(2),
            metadata |-> MetaTags]),
      JObj([title |-> JStr(TitleB), content |-> JStr(ContentB), author_id |-> JNum(1),
            metadata |-> MetaFull, published |-> JBool(TRUE)]),
      JObj([title |-> JStr(TitleA), content |-> JStr(ContentA), author_id |-> JNum(NoSuchId)]),
      \* rejected by the validation
      JObj([title |-> JStr(Rep("a", 2)), content |-> JStr(ContentA), author_id |-> JNum(NoSuchId)]),
      JObj([title |-> JStr(Rep("a", 2)), content |-> JStr(Rep("a", 9)), author_id |-> JNum(0)]),
      JObj([title |-> JStr(Rep("a", 256)), content |-> JStr(ContentA), author_id |-> JNum(1)]),
      JObj([title |-> JStr(Rep("a", 2)), content |-> JStr(Rep("a", 9)), author_id |-> JNum(1),
            metadata |-> MetaTagTooLong]),
      JObj([title |-> JStr(TitleA), content |-> JStr(ContentA), author_id |-> JNum(1),
            metadata |-> MetaTagTooLong]),
      JObj([title |-> JStr(TitleA), content |-> JStr(ContentA), author_id |-> JNum(1),
            metadata |-> MetaTooManyTags]),
      JObj([title |-> JStr(TitleA), content |-> JStr(ContentA), author_id |-> JNum(1),
            metadata |-> MetaTooManyTagsOneEmpty]),
      JObj([title |-> JStr(TitleA), content |-> JStr(ContentA), author_id |-> JNum(1),
            metadata |-> MetaReadingTime]),
      JObj([title |-> JStr(Rep("a", 2)), content |-> JStr(ContentA), author_id |-> JNum(1),
            metadata |-> MetaSeoTitle]),
      \* rejected by the parser
      Malformed,
      JObj([content |-> JStr(ContentA), author_id |-> JNum(1)]),
      JObj([title |-> JStr(Rep("a", 2)), content |-> JStr(ContentA), author_id |-> JNum(1),
            metadata |-> JStr(<< "a" >>)]) }

UpdatePostBodies ==
    { JEmptyObj,
      JObj([title |-> JStr(TitleB)]),
      JObj([content |-> JStr(ContentB)]),
      JObj([metadata |-> MetaTags]),
      JObj([published |-> JBool(TRUE)]),
      JObj([title |-> JStr(TitleA), content |-> JStr(ContentA), metadata |-> JEmptyObj,
            published |-> JBool(FALSE)]),
      JObj([title |-> JStr(Rep("a", 2))]),
      JObj([content |-> JStr(Rep("a", 9)), metadata |-> MetaTagTooLong]),
      JObj([metadata |-> MetaTooManyTagsOneEmpty]),
      Malformed,
      JObj([title |-> JNum(1)]) }

\* path ids the clients ask for: the ids the store hands out and one it never does
PathIds == 1..(MaxId + 1)
PostPathIds == 1..(MaxPostId + 1)

\* ------------------------------------------------------------------------
\* Handlers: one action per await of a handler
\* ------------------------------------------------------------------------
Idle(p) == pc[p] = "idle"
\* a request is taken by a free slot; without overlap, only when no other is in flight
Admit(p) == Idle(p) /\ (overlap \/ \A q \in Procs : Idle(q))
Respond(p, r) ==
    /\ resp' = [resp EXCEPT ![p] = r]
    /\ pc' = [pc EXCEPT ![p] = "done"]
Issue(p, op) == ops' = [ops EXCEPT ![p] = Append(@, op)]
\* requests in flight that may still insert a row
Inserting(states) == Cardinality({q \in Procs : pc[q] \in states})

\* POST /users: the extractor, then UserService::create up to its first await
create_user_Start(p, body) ==
    /\ Admit(p)
    /\ LET x == from_request(body, DeCreateUserDto, ValidateCreateUserDto)
       IN  IF x.ok
           THEN /\ next_user_id + Inserting({"cu_check", "cu_insert"}) <= MaxId
                /\ req' = [req EXCEPT ![p] = [op |-> "create_user", body |-> body, dto |-> x.dto]]
                /\ pc' = [pc EXCEPT ![p] = "cu_check"]
                /\ resp' = resp
           ELSE /\ req' = [req EXCEPT ![p] = [op |-> "create_user", body |-> body]]
                /\ Respond(p, x.response)
    /\ UNCHANGED << store, env, loc, ops >>

\* UserService::create without the existence check
create_user_Check_NoLookup(p) ==
    /\ pc[p] = "cu_check"
    /\ Issue(p, "find_user_by_email")
    /\ loc' = [loc EXCEPT ![p] =
                [set |-> TRUE,
                 new_user |-> [username |-> req[p].dto.username,
                               email |-> req[p].dto.email,
                               created_at |-> clock]]]
    /\ pc' = [pc EXCEPT ![p] = "cu_insert"]
    /\ resp' = resp
    /\ UNCHANGED << store, env, req >>
\* UserService::create: the existence check on the email
create_user_Check(p) ==
    /\ pc[p] = "cu_check"
    /\ Issue(p, "find_user_by_email")
    /\ IF IsSome(find_user_by_email(req[p].dto.email))
       THEN /\ Respond(p, ServiceErrorResponse(SvcAlreadyExists("Email already exists")))
            /\ loc' = loc
       ELSE /\ loc' = [loc EXCEPT ![p] =
                        [set |-> TRUE,
                         new_user |-> [username |-> req[p].dto.username,
                                       email |-> req[p].dto.email,
                                       created_at |-> clock]]]
            /\ pc' = [pc EXCEPT ![p] = "cu_insert"]
            /\ resp' = resp
    /\ UNCHANGED << store, env, req >>

\* UserService::create: new_user.insert(db)
create_user_Insert(p) ==
    /\ pc[p] = "cu_insert"
    /\ Issue(p, "insert_user")
    /\ IF email_taken(loc[p].new_user.email, 0)
       THEN /\ Respond(p, ServiceErrorResponse(SvcDatabase(DbErrUniqueEmail)))
            /\ UNCHANGED << users, next_user_id >>
       ELSE LET user == [id |-> next_user_id,
                         username |-> loc[p].new_user.username,
                         email |-> loc[p].new_user.email,
                         created_at |-> loc[p].new_user.created_at]
            IN  /\ users' = users \cup {user}
                /\ next_user_id' = next_user_id + 1
                /\ Respond(p, CreatedResponse(UserResponseFrom(user)))
    /\ UNCHANGED << posts, next_post_id, env, req, loc >>

\* PUT /users/:id: the extractor, then UserService::update up to its first await
update_user_Start(p, id, body) ==
    /\ Admit(p)
    /\ LET x == from_request(body, DeUpdateUserDto, ValidateUpdateUserDto)
       IN  IF x.ok
           THEN /\ req' = [req EXCEPT ![p] = [op |-> "update_user", id |-> id, body |-> body, dto |-> x.dto]]
                /\ pc' = [pc EXCEPT ![p] = "uu_find"]
                /\ resp' = resp
           ELSE /\ req' = [req EXCEPT ![p] = [op |-> "update_user", id |-> id, body |-> body]]
                /\ Respond(p, x.response)
    /\ UNCHANGED << store, env, loc, ops >>

\* UserService::update without the email uniqueness check
update_user_Find_NoEmailCheck(p) ==
    /\ pc[p] = "uu_find"
    /\ Issue(p, "find_user_by_id")
    /\ LET found == find_user_by_id(req[p].id)
       IN  IF IsNone(found)
           THEN /\ Respond(p, ServiceErrorResponse(SvcNotFound))
                /\ loc' = loc
           ELSE /\ loc' = [loc EXCEPT ![p] = [set |-> TRUE, user |-> found[1]]]
                /\ pc' = [pc EXCEPT ![p] = "uu_update"]
                /\ resp' = resp
    /\ UNCHANGED << store, env, req >>
\* UserService::update: find the user, then decide whether the email is looked up
update_user_Find(p) ==
    /\ pc[p] = "uu_find"
    /\ Issue(p, "find_user_by_id")
    /\ LET found == find_user_by_id(req[p].id)
           dto == req[p].dto
       IN  IF IsNone(found)
           THEN /\ Respond(p, ServiceErrorResponse(SvcNotFound))
                /\ loc' = loc
           ELSE /\ loc' = [loc EXCEPT ![p] = [set |-> TRUE, user |-> found[1]]]
                /\ pc' = [pc EXCEPT ![p] =
                            IF IsSome(dto.email) /\ dto.email[1] # found[1].email
                            THEN "uu_check" ELSE "uu_update"]
                /\ resp' = resp
    /\ UNCHANGED << store, env, req >>

\* UserService::update: the uniqueness check on the new email
update_user_Check(p) ==
    /\ pc[p] = "uu_check"
    /\ Issue(p, "find_user_by_email")
    /\ IF IsSome(find_user_by_email(req[p].dto.email[1]))
       THEN Respond(p, ServiceErrorResponse(SvcAlreadyExists("Email already exists")))
       ELSE /\ pc' = [pc EXCEPT ![p] = "uu_update"]
            /\ resp' = resp
    /\ UNCHANGED << store, env, req, loc >>

\* the ActiveModel UserService::update builds: the columns it sets
UserChanges(user, dto) ==
    [username |-> dto.username, email |-> dto.email]
\* UPDATE users SET <the set columns> WHERE id = ... RETURNING *
ApplyUserChanges(row, ch) ==
    [row EXCEPT !.username = IF IsSome(ch.username) THEN ch.username[1] ELSE @,
                !.email = IF IsSome(ch.email) THEN ch.email[1] ELSE @]

\* UserService::update: active_model.update(db)
update_user_Update(p) ==
    /\ pc[p] = "uu_update"
    /\ Issue(p, "update_user")
    /\ LET id == loc[p].user.id
           ch == UserChanges(loc[p].user, req[p].dto)
           row == find_user_by_id(id)
       IN  IF IsNone(row)
           THEN /\ Respond(p, ServiceErrorResponse(SvcDatabase(DbErrRecordNotUpdated)))
                /\ users' = users
           ELSE IF IsSome(ch.email) /\ email_taken(ch.email[1], id)
           THEN /\ Respond(p, ServiceErrorResponse(SvcDatabase(DbErrUniqueEmail)))
                /\ users' = users
           ELSE LET updated == ApplyUserChanges(row[1], ch)
                IN  /\ users' = (users \ {row[1]}) \cup {updated}
                    /\ Respond(p, OneResponse(UserResponseFrom(updated)))
    /\ UNCHANGED << posts, next_user_id, next_post_id, env, req, loc >>

\* DELETE /users/:id
delete_user_Start(p, id) ==
    /\ Admit(p)
    /\ req' = [req EXCEPT ![p] = [op |-> "delete_user", id |-> id]]
    /\ pc' = [pc EXCEPT ![p] = "du_exec"]
    /\ UNCHANGED << store, env, loc, resp, ops >>

\* a delete on a posts table whose foreign key does not cascade
delete_user_Exec_NoCascade(p) ==
    /\ pc[p] = "du_exec"
    /\ Issue(p, "delete_user")
    /\ LET rows == {u \in users : u.id = req[p].id}
       IN  /\ users' = users \ rows
           /\ IF Cardinality(rows) = 0
              THEN Respond(p, ServiceErrorResponse(SvcNotFound))
              ELSE Respond(p, NoContentResponse)
    /\ UNCHANGED << posts, next_user_id, next_post_id, env, req, loc >>
\* a delete that does not look at the number of rows affected
delete_user_Exec_IgnoresRowsAffected(p) ==
    /\ pc[p] = "du_exec"
    /\ Issue(p, "delete_user")
    /\ users' = {u \in users : u.id # req[p].id}
    /\ posts' = {q \in posts : q.author_id # req[p].id}
    /\ Respond(p, NoContentResponse)
    /\ UNCHANGED << next_user_id, next_post_id, env, req, loc >>
\* UserService::delete: delete_by_id(id).exec(db); the posts' foreign key is
\* ON DELETE CASCADE
delete_user_Exec(p) ==
    /\ pc[p] = "du_exec"
    /\ Issue(p, "delete_user")
    /\ LET rows == {u \in users : u.id = req[p].id}
       IN  /\ users' = users \ rows
           /\ posts' = {q \in posts : q.author_id # req[p].id}
           /\ IF Cardinality(rows) = 0
              THEN Respond(p, ServiceErrorResponse(SvcNotFound))
              ELSE Respond(p, NoContentResponse)
    /\ UNCHANGED << next_user_id, next_post_id, env, req, loc >>

\* POST /posts: the extractor, then PostService::create up to its first await
create_post_Start(p, body) ==
    /\ Admit(p)
    /\ LET x == from_request(body, DeCreatePostDto, ValidateCreatePostDto)
       IN  IF x.ok
           THEN /\ next_post_id + Inserting({"cp_find", "cp_insert"}) <= MaxPostId
                /\ req' = [req EXCEPT ![p] = [op |-> "create_post", body |-> body, dto |-> x.dto]]
                /\ pc' = [pc EXCEPT ![p] = "cp_find"]
                /\ resp' = resp
           ELSE /\ req' = [req EXCEPT ![p] = [op |-> "create_post", body |-> body]]
                /\ Respond(p, x.response)
    /\ UNCHANGED << store, env, loc, ops >>

\* a create that writes JSON null when the DTO has no metadata
NewPost_NullMetadata(dto, now) ==
    [title |-> dto.title,
     content |-> dto.content,
     author_id |-> dto.author_id,
     metadata |-> IF IsSome(dto.metadata) THEN to_json(dto.metadata[1]) ELSE JNull,
     published |-> dto.published,
     created_at |-> now,
     updated_at |-> None]
\* the ActiveModel PostService::create builds
NewPost(dto, now) ==
    [title |-> dto.title,
     content |-> dto.content,
     author_id |-> dto.author_id,
     metadata |-> to_json(IF IsSome(dto.metadata) THEN dto.metadata[1]
                          ELSE DefaultCreatePostMetadataDto),
     published |-> dto.published,
     created_at |-> now,
     updated_at |-> None]

\* PostService::create without the author check
create_post_FindAuthor_NoCheck(p) ==
    /\ pc[p] = "cp_find"
    /\ Issue(p, "find_user_by_id")
    /\ loc' = [loc EXCEPT ![p] =
                [set |-> TRUE,
                 author |-> [id |-> req[p].dto.author_id, username |-> << >>, email |-> << >>],
                 new_post |-> NewPost(req[p].dto, clock)]]
    /\ pc' = [pc EXCEPT ![p] = "cp_insert"]
    /\ resp' = resp
    /\ UNCHANGED << store, env, req >>
\* PostService::create: the author must exist
create_post_FindAuthor(p) ==
    /\ pc[p] = "cp_find"
    /\ Issue(p, "find_user_by_id")
    /\ LET author == find_user_by_id(req[p].dto.author_id)
       IN  IF IsNone(author)
           THEN /\ Respond(p, ServiceErrorResponse(SvcNotFound))
                /\ loc' = loc
           ELSE /\ loc' = [loc EXCEPT ![p] =
                            [set |-> TRUE, author |-> author[1],
                             new_post |-> NewPost(req[p].dto, clock)]]
                /\ pc' = [pc EXCEPT ![p] = "cp_insert"]
                /\ resp' = resp
    /\ UNCHANGED << store, env, req >>

\* an insert into a posts table without the foreign key
create_post_Insert_NoForeignKey(p) ==
    /\ pc[p] = "cp_insert"
    /\ Issue(p, "insert_post")
    /\ LET post == [id |-> next_post_id] @@ loc[p].new_post
       IN  /\ posts' = posts \cup {post}
           /\ next_post_id' = next_post_id + 1
           /\ Respond(p, CreatedResponse(PostResponseFrom(post, loc[p].author)))
    /\ UNCHANGED << users, next_user_id, env, req, loc >>
\* PostService::create: new_post.insert(db); fk_posts_author must hold
create_post_Insert(p) ==
    /\ pc[p] = "cp_insert"
    /\ Issue(p, "insert_post")
    /\ IF IsNone(find_user_by_id(loc[p].new_post.author_id))
       THEN /\ Respond(p, ServiceErrorResponse(SvcDatabase(DbErrForeignKey)))
            /\ UNCHANGED << posts, next_post_id >>
       ELSE LET post == [id |-> next_post_id] @@ loc[p].new_post
            IN  /\ posts' = posts \cup {post}
                /\ next_post_id' = next_post_id + 1
                /\ Respond(p, CreatedResponse(PostResponseFrom(post, loc[p].author)))
    /\ UNCHANGED << users, next_user_id, env, req, loc >>

\* PUT /posts/:id: the extractor, then PostService::update up to its first await
update_post_Start(p, id, body) ==
    /\ Admit(p)
    /\ LET x == from_request(body, DeUpdatePostDto, ValidateUpdatePostDto)
       IN  IF x.ok
           THEN /\ req' = [req EXCEPT ![p] = [op |-> "update_post", id |-> id, body |-> body, dto |-> x.dto]]
                /\ pc' = [pc EXCEPT ![p] = "up_find"]
                /\ resp' = resp
           ELSE /\ req' = [req EXCEPT ![p] = [op |-> "update_post", id |-> id, body |-> body]]
                /\ Respond(p, x.response)
    /\ UNCHANGED << store, env, loc, ops >>

\* PostService::update: find the post
update_post_Find(p) ==
    /\ pc[p] = "up_find"
    /\ Issue(p, "find_post_by_id")
    /\ LET existing == find_post_by_id(req[p].id)
       IN  IF IsNone(existing)
           THEN /\ Respond(p, ServiceErrorResponse(SvcNotFound))
                /\ loc' = loc
           ELSE /\ loc' = [loc EXCEPT ![p] = [set |-> TRUE, existing |-> existing[1]]]
                /\ pc' = [pc EXCEPT ![p] = "up_author"]
                /\ resp' = resp
    /\ UNCHANGED << store, env, req >>

\* an ActiveModel that stamps updated_at only when the DTO carries a field
PostChanges_StampsOnlyWithFields(dto, now) ==
    [title |-> dto.title,
     content |-> dto.content,
     metadata |-> IF IsSome(dto.metadata) THEN Some(to_json(dto.metadata[1])) ELSE None,
     published |-> dto.published,
     updated_at |-> IF IsSome(dto.title) \/ IsSome(dto.content) \/ IsSome(dto.metadata)
                        \/ IsSome(dto.published)
                    THEN Some(Some(now)) ELSE None]
\* the ActiveModel PostService::update builds: the columns it sets
PostChanges(dto, now) ==
    [title |-> dto.title,
     content |-> dto.content,
     metadata |-> IF IsSome(dto.metadata) THEN Some(to_json(dto.metadata[1])) ELSE None,
     published |-> dto.published,
     updated_at |-> Some(Some(now))]
\* an update that writes published = false when the DTO leaves it out
ApplyPostChanges_ResetsPublished(row, ch) ==
    [row EXCEPT !.title = IF IsSome(ch.title) THEN ch.title[1] ELSE @,
                !.content = IF IsSome(ch.content) THEN ch.content[1] ELSE @,
                !.metadata = IF IsSome(ch.metadata) THEN ch.metadata[1] ELSE @,
                !.published = IF IsSome(ch.published) THEN ch.published[1] ELSE FALSE,
                !.updated_at = IF IsSome(ch.updated_at) THEN ch.updated_at[1] ELSE @]
\* an update that keeps a part of the old document where the new one has null
ApplyPostChanges_MergesMetadata(row, ch) ==
    [row EXCEPT !.title = IF IsSome(ch.title) THEN ch.title[1] ELSE @,
                !.content = IF IsSome(ch.content) THEN ch.content[1] ELSE @,
                !.metadata = IF IsSome(ch.metadata)
                             THEN JObj([k \in DOMAIN ch.metadata[1].o |->
                                         IF ch.metadata[1].o[k].t = "null" /\ k \in DOMAIN @.o
                                         THEN @.o[k] ELSE ch.metadata[1].o[k]])
                             ELSE @,
                !.published = IF IsSome(ch.published) THEN ch.published[1] ELSE @,
                !.updated_at = IF IsSome(ch.updated_at) THEN ch.updated_at[1] ELSE @]
\* UPDATE posts SET <the set columns> WHERE id = ... RETURNING *
ApplyPostChanges(row, ch) ==
    [row EXCEPT !.title = IF IsSome(ch.title) THEN ch.title[1] ELSE @,
                !.content = IF IsSome(ch.content) THEN ch.content[1] ELSE @,
                !.metadata = IF IsSome(ch.metadata) THEN ch.metadata[1] ELSE @,
                !.published = IF IsSome(ch.published) THEN ch.published[1] ELSE @,
                !.updated_at = IF IsSome(ch.updated_at) THEN ch.updated_at[1] ELSE @]

\* PostService::update: find the post's author, then build the ActiveModel
update_post_FindAuthor(p) ==
    /\ pc[p] = "up_author"
    /\ Issue(p, "find_user_by_id")
    /\ LET author == find_user_by_id(loc[p].existing.author_id)
       IN  IF IsNone(author)
           THEN /\ Respond(p, ServiceErrorResponse(SvcNotFound))
                /\ loc' = loc
           ELSE /\ loc' = [loc EXCEPT ![p] =
                            [set |-> TRUE, existing |-> loc[p].existing, author |-> author[1],
                             changes |-> PostChanges(req[p].dto, clock)]]
                /\ pc' = [pc EXCEPT ![p] = "up_update"]
                /\ resp' = resp
    /\ UNCHANGED << store, env, req >>

\* an update that writes the row it read back when the store no longer holds it
update_post_Update_Reinserts(p) ==
    /\ pc[p] = "up_update"
    /\ Issue(p, "update_post")
    /\ LET row == find_post_by_id(loc[p].existing.id)
           base == IF IsNone(row) THEN loc[p].existing ELSE row[1]
           updated == ApplyPostChanges(base, loc[p].changes)
       IN  /\ posts' = (posts \ {base}) \cup {updated}
           /\ Respond(p, OneResponse(PostResponseFrom(updated, loc[p].author)))
    /\ UNCHANGED << users, next_user_id, next_post_id, env, req, loc >>
\* PostService::update: active_model.update(db)
update_post_Update(p) ==
    /\ pc[p] = "up_update"
    /\ Issue(p, "update_post")
    /\ LET row == find_post_by_id(loc[p].existing.id)
       IN  IF IsNone(row)
           THEN /\ Respond(p, ServiceErrorResponse(SvcDatabase(DbErrRecordNotUpdated)))
                /\ posts' = posts
           ELSE LET updated == ApplyPostChanges(row[1], loc[p].changes)
                IN  /\ posts' = (posts \ {row[1]}) \cup {updated}
                    /\ Respond(p, OneResponse(PostResponseFrom(updated, loc[p].author)))
    /\ UNCHANGED << users, next_user_id, next_post_id, env, req, loc >>

\* DELETE /posts/:id
delete_post_Start(p, id) ==
    /\ Admit(p)
    /\ req' = [req EXCEPT ![p] = [op |-> "delete_post", id |-> id]]
    /\ pc' = [pc EXCEPT ![p] = "dp_exec"]
    /\ UNCHANGED << store, env, loc, resp, ops >>

\* PostService::delete: delete_by_id(id).exec(db)
delete_post_Exec(p) ==
    /\ pc[p] = "dp_exec"
    /\ Issue(p, "delete_post")
    /\ LET rows == {q \in posts : q.id = req[p].id}
       IN  /\ posts' = posts \ rows
           /\ IF Cardinality(rows) = 0
              THEN Respond(p, ServiceErrorResponse(SvcNotFound))
              ELSE Respond(p, NoContentResponse)
    /\ UNCHANGED << users, next_user_id, next_post_id, env, req, loc >>

\* the response has been read; the slot takes the next request
Finish(p) ==
    /\ pc[p] = "done"
    /\ pc' = [pc EXCEPT ![p] = "idle"]
    /\ req' = [req EXCEPT ![p] = NoReq]
    /\ loc' = [loc EXCEPT ![p] = NoLoc]
    /\ resp' = [resp EXCEPT ![p] = NoResp]
    /\ ops' = [ops EXCEPT ![p] = << >>]
    /\ UNCHANGED << store, env >>

\* time passes
Tick ==
    /\ clock < MaxClock
    /\ clock' = clock + 1
    /\ UNCHANGED << store, overlap, arg, ret, procs >>

\* ------------------------------------------------------------------------
\* Unsigned 64-bit arithmetic
\* ------------------------------------------------------------------------
\* u64: the values 0..Modulus-1
Modulus == 2 ^ WordBits
U64 == 0..(Modulus - 1)

\* PaginationMeta::new: (total + per_page - 1) / per_page on u64. With overflow
\* checks (a debug build) an addition or subtraction that leaves the range
\* panics, without them (a release build) it wraps; a division by zero panics
\* in both.
PaginationMeta_new(total, page, per_page, overflow_checks) ==
    LET sum == total + per_page
        wrapped_sum == sum % Modulus
        diff == wrapped_sum - 1
        wrapped_diff == (diff + Modulus) % Modulus
    IN  IF overflow_checks /\ (sum >= Modulus \/ diff < 0) THEN [panic |-> TRUE]
        ELSE IF per_page = 0 THEN [panic |-> TRUE]
        ELSE [panic |-> FALSE,
              v |-> [total |-> total, page |-> page, per_page |-> per_page,
                     total_pages |-> wrapped_diff \div per_page]]

\* ------------------------------------------------------------------------
\* The read endpoints: get by id and the paginated lists
\* ------------------------------------------------------------------------
default_page == 1
default_per_page == 10
\* Query<PaginationQuery>: a parameter the query string leaves out takes its
\* serde default
DePaginationQuery(q) ==
    [page |-> IF IsSome(q.page) THEN q.page[1] ELSE default_page,
     per_page |-> IF IsSome(q.per_page) THEN q.per_page[1] ELSE default_per_page]
\* u64::saturating_sub
saturating_sub(a, b) == IF a >= b THEN a - b ELSE 0
\* PaginationQuery::offset: a u64 multiplication, which panics with overflow
\* checks and wraps without them
offset(pagination, overflow_checks) ==
    LET product == saturating_sub(pagination.page, 1) * pagination.per_page
    IN  IF overflow_checks /\ product >= Modulus THEN [panic |-> TRUE]
        ELSE [panic |-> FALSE, v |-> product % Modulus]
\* PaginationQuery::limit
limit(pagination) == pagination.per_page

\* ORDER BY id ASC
RECURSIVE order_by_asc_Id(_)
order_by_asc_Id(rows) ==
    IF rows = {} THEN << >>
    ELSE LET first == CHOOSE r \in rows : \A o \in rows : r.id <= o.id
         IN  << first >> \o order_by_asc_Id(rows \ {first})
\* ORDER BY created_at DESC: the orders the store may return rows in; rows of
\* equal created_at come in an order the query does not fix
order_by_desc_CreatedAt(rows) ==
    {s \in [1..Cardinality(rows) -> rows] :
        /\ \A i, j \in DOMAIN s : i # j => s[i] # s[j]
        /\ \A i, j \in DOMAIN s : i < j => s[i].created_at >= s[j].created_at}
\* a page query that skips no row
OffsetLimit_IgnoresOffset(s, off, lim) == SubSeq(s, 1, IF lim < Len(s) THEN lim ELSE Len(s))
\* OFFSET off LIMIT lim
OffsetLimit(s, off, lim) ==
    SubSeq(s, off + 1, IF off + lim < Len(s) THEN off + lim ELSE Len(s))

\* ApiResponseBuilder::paginated
PaginatedResponse(data, meta) == [status |-> 200, data |-> data, meta |-> meta]

\* the character e with acute accent, written by its code point
EAcute == "U+00E9"
\* the bytes of a character in UTF-8
Utf8Len(c) == IF c = EAcute THEN 2 ELSE 1
\* str::len: the length in bytes, counted as the pairs of a character's
\* position and the position of a byte in its encoding
ByteLen(s) ==
    Cardinality({x \in (1..Len(s)) \X (1..4) : x[2] <= Utf8Len(s[x[1]])})
\* &s[..n]: the prefix of n bytes; a panic when n is past the end or inside a
\* character
SliceTo(s, n) ==
    LET cuts == {k \in 0..Len(s) : ByteLen(SubSeq(s, 1, k)) = n}
    IN  IF cuts = {} THEN [panic |-> TRUE]
        ELSE [panic |-> FALSE, v |-> SubSeq(s, 1, CHOOSE k \in cuts : TRUE)]
\* the excerpt PostListItemResponse::from_post_with_author computes
excerpt(content) ==
    IF ByteLen(content) > 100
    THEN LET head == SliceTo(content, 100)
         IN  IF head.panic THEN [panic |-> TRUE]
             ELSE [panic |-> FALSE, v |-> head.v \o << ".", ".", "." >>]
    ELSE [panic |-> FALSE, v |-> content]
\* PostListItemResponse::from_post_with_author
PostListItemResponseFrom(post, author) ==
    LET metadata == get_metadata(post)
        e == excerpt(post.content)
    IN  IF e.panic THEN [panic |-> TRUE]
        ELSE [panic |-> FALSE,
              v |-> [id |-> post.id, title |-> post.title, excerpt |-> e.v,
                     published |-> post.published, created_at |-> post.created_at,
                     author |-> AuthorResponseFrom(author),
                     tags |-> [i \in 1..Len(metadata.tags) |->
                                  [name |-> metadata.tags[i].name,
                                   color |-> metadata.tags[i].color]]]]

\* the query strings the clients send to the list endpoints
ListQueries == [page : {None, Some(2)}, per_page : {None, Some(0), Some(1), Some(101)}]

\* GET /users/:id
get_user_Start(p, id) ==
    /\ Admit(p)
    /\ req' = [req EXCEPT ![p] = [op |-> "get_user", id |-> id]]
    /\ pc' = [pc EXCEPT ![p] = "gu_find"]
    /\ UNCHANGED << store, env, loc, resp, ops >>

\* UserService::find_by_id
get_user_Find(p) ==
    /\ pc[p] = "gu_find"
    /\ Issue(p, "find_user_by_id")
    /\ LET user == find_user_by_id(req[p].id)
       IN  IF IsNone(user)
           THEN Respond(p, ServiceErrorResponse(SvcNotFound))
           ELSE Respond(p, OneResponse(UserResponseFrom(user[1])))
    /\ UNCHANGED << store, env, req, loc >>

\* GET /users
list_users_Start(p, q) ==
    /\ Admit(p)
    /\ req' = [req EXCEPT ![p] =
                [op |-> "list_users", query |-> q, pagination |-> DePaginationQuery(q)]]
    /\ pc' = [pc EXCEPT ![p] = "lu_count"]
    /\ UNCHANGED << store, env, loc, resp, ops >>

\* UserService::find_all: the count query
list_users_Count(p) ==
    /\ pc[p] = "lu_count"
    /\ Issue(p, "count_users")
    /\ loc' = [loc EXCEPT ![p] = [set |-> TRUE, total |-> Cardinality(users)]]
    /\ pc' = [pc EXCEPT ![p] = "lu_select"]
    /\ UNCHANGED << store, env, req, resp >>

\* UserService::find_all: the page query, then list_users builds the response
list_users_Select(p) ==
    /\ pc[p] = "lu_select"
    /\ \E overflow_checks \in BOOLEAN :
        LET pagination == req[p].pagination
            off == offset(pagination, overflow_checks)
        IN  IF off.panic
            THEN /\ ops' = ops
                 /\ loc' = loc
                 /\ Respond(p, HandlerPanicked)
            ELSE LET page == OffsetLimit(order_by_asc_Id(users), off.v, limit(pagination))
                     data == [i \in 1..Len(page) |-> UserResponseFrom(page[i])]
                     meta == PaginationMeta_new(loc[p].total, pagination.page,
                                                pagination.per_page, overflow_checks)
                 IN  /\ Issue(p, "select_users")
                     /\ loc' = [loc EXCEPT ![p] =
                                 [set |-> TRUE, total |-> loc[p].total,
                                  offset |-> off.v, limit |-> limit(pagination)]]
                     /\ IF meta.panic THEN Respond(p, HandlerPanicked)
                        ELSE Respond(p, PaginatedResponse(data, meta.v))
    /\ UNCHANGED << store, env, req >>

\* GET /posts/:id
get_post_Start(p, id) ==
    /\ Admit(p)
    /\ req' = [req EXCEPT ![p] = [op |-> "get_post", id |-> id]]
    /\ pc' = [pc EXCEPT ![p] = "gp_find"]
    /\ UNCHANGED << store, env, loc, resp, ops >>

\* PostService::find_by_id: find the post
get_post_Find(p) ==
    /\ pc[p] = "gp_find"
    /\ Issue(p, "find_post_by_id")
    /\ LET post == find_post_by_id(req[p].id)
       IN  IF IsNone(post)
           THEN /\ Respond(p, ServiceErrorResponse(SvcNotFound))
                /\ loc' = loc
           ELSE /\ loc' = [loc EXCEPT ![p] = [set |-> TRUE, post |-> post[1]]]
                /\ pc' = [pc EXCEPT ![p] = "gp_author"]
                /\ resp' = resp
    /\ UNCHANGED << store, env, req >>

\* PostService::find_by_id: find the post's author
get_post_FindAuthor(p) ==
    /\ pc[p] = "gp_author"
    /\ Issue(p, "find_user_by_id")
    /\ LET author == find_user_by_id(loc[p].post.author_id)
       IN  IF IsNone(author)
           THEN Respond(p, ServiceErrorResponse(SvcNotFound))
           ELSE Respond(p, OneResponse(PostResponseFrom(loc[p].post, author[1])))
    /\ UNCHANGED << store, env, req, loc >>

\* GET /posts
list_posts_Start(p, q) ==
    /\ Admit(p)
    /\ req' = [req EXCEPT ![p] =
                [op |-> "list_posts", query |-> q, pagination |-> DePaginationQuery(q)]]
    /\ pc' = [pc EXCEPT ![p] = "lp_count"]
    /\ UNCHANGED << store, env, loc, resp, ops >>

\* PostService::find_all: the count query
list_posts_Count(p) ==
    /\ pc[p] = "lp_count"
    /\ Issue(p, "count_posts")
    /\ loc' = [loc EXCEPT ![p] = [set |-> TRUE, total |-> Cardinality(posts)]]
    /\ pc' = [pc EXCEPT ![p] = "lp_select"]
    /\ UNCHANGED << store, env, req, resp >>

\* list_posts once find_all has returned: the items, then the meta
ListPostsResponse(total, pagination, page, authors, overflow_checks) ==
    LET items == [i \in 1..Len(page) |-> PostListItemResponseFrom(page[i], authors[i])]
        meta == PaginationMeta_new(total, pagination.page, pagination.per_page,
                                   overflow_checks)
    IN  IF (\E i \in 1..Len(page) : items[i].panic) \/ meta.panic THEN HandlerPanicked
        ELSE PaginatedResponse([i \in 1..Len(page) |-> items[i].v], meta.v)

\* PostService::find_all: the page query
list_posts_Select(p) ==
    /\ pc[p] = "lp_select"
    /\ \E overflow_checks \in BOOLEAN :
        LET pagination == req[p].pagination
            off == offset(pagination, overflow_checks)
        IN  IF off.panic
            THEN /\ ops' = ops
                 /\ loc' = loc
                 /\ Respond(p, HandlerPanicked)
            ELSE \E sorted \in order_by_desc_CreatedAt(posts) :
                 LET page == OffsetLimit(sorted, off.v, limit(pagination))
                 IN  /\ Issue(p, "select_posts")
                     /\ loc' = [loc EXCEPT ![p] =
                                 [set |-> TRUE, total |-> loc[p].total,
                                  offset |-> off.v, limit |-> limit(pagination),
                                  page |-> page, authors |-> << >>]]
                     /\ IF page = << >>
                        THEN Respond(p, ListPostsResponse(loc[p].total, pagination,
                                                          << >>, << >>, overflow_checks))
                        ELSE /\ pc' = [pc EXCEPT ![p] = "lp_author"]
                             /\ resp' = resp
    /\ UNCHANGED << store, env, req >>

\* PostService::find_all: the author of the next post of the page
list_posts_FindAuthor(p) ==
    /\ pc[p] = "lp_author"
    /\ Issue(p, "find_user_by_id")
    /\ LET post == loc[p].page[Len(loc[p].authors) + 1]
           author == find_user_by_id(post.author_id)
       IN  IF IsNone(author)
           THEN /\ Respond(p, ServiceErrorResponse(SvcNotFound))
                /\ loc' = loc
           ELSE LET authors == Append(loc[p].authors, author[1])
                IN  /\ loc' = [loc EXCEPT ![p].authors = authors]
                    /\ IF Len(authors) < Len(loc[p].page)
                       THEN /\ pc' = pc
                            /\ resp' = resp
                       ELSE \E overflow_checks \in BOOLEAN :
                            Respond(p, ListPostsResponse(loc[p].total, req[p].pagination,
                                                         loc[p].page, authors,
                                                         overflow_checks))
    /\ UNCHANGED << store, env, req >>

\* ------------------------------------------------------------------------
\* The inputs of the functions evaluated on their own
\* ------------------------------------------------------------------------
\* the documents PostMetadata ranges over
TagDocs == [name : {<< "a" >>, Rep("b", 50)}, color : {None, Some(<< "c" >>)}]
TagSeqs == {<< >>} \cup {<< t >> : t \in TagDocs} \cup {<< t, u >> : t, u \in TagDocs}
              \cup {[i \in 1..10 |-> [name |-> << "a" >>, color |-> None]]}
SeoDocs ==
    [meta_title : {None, Some(<< "a" >>)},
     meta_description : {None, Some(<< "b" >>)},
     keywords : {<< >>, << << "a" >> >>, << << "a" >>, << "b" >> >>}]
SettingsDocs ==
    [allow_comments : BOOLEAN, featured : BOOLEAN, reading_time_minutes : {None, Some(1), Some(60)}]
MetadataDocs ==
    [tags : TagSeqs,
     seo : {None} \cup {Some(d) : d \in SeoDocs},
     settings : {None} \cup {Some(d) : d \in SettingsDocs}]

\* the errors a service returns
DbErrs == {DbErrUniqueEmail, DbErrForeignKey, DbErrRecordNotUpdated}
ServiceErrors ==
    {SvcNotFound}
    \cup {SvcAlreadyExists(m) : m \in {"Email already exists", "Username already exists"}}
    \cup {SvcDatabase(d) : d \in DbErrs}
\* the contents of posts: of one-byte characters, of two-byte characters and
\* of both, around 100 characters and around 100 bytes
Contents ==
    {Rep("a", n) : n \in {10, 99, 100, 101, 120}}
    \cup {Rep(EAcute, n) : n \in {10, 50, 51, 100, 101}}
    \cup {<< "a" >> \o Rep(EAcute, n) : n \in {49, 50, 100}}

\* the pages offset() is evaluated on: the first ones and the largest
OffsetPages == {0, 1, 2, 3, Modulus - 1}
\* the inputs the functions are evaluated on
PureArgs ==
    { [fn |-> "PaginationMeta_new", total |-> t, page |-> 1, per_page |-> n, overflow_checks |-> c] :
        t \in U64, n \in U64, c \in BOOLEAN }
    \cup { [fn |-> "get_metadata", m |-> m] : m \in MetadataDocs }
    \cup { [fn |-> "into_response", err |-> e] : e \in ServiceErrors }
    \cup { [fn |-> "into_response_twice", first |-> d, second |-> e] : d, e \in DbErrs }
    \cup { [fn |-> "excerpt", content |-> c] : c \in Contents }
    \cup { [fn |-> "offset", page |-> pg, per_page |-> n, overflow_checks |-> c] :
               pg \in OffsetPages, n \in U64, c \in BOOLEAN }

\* ApiResponseBuilder::paginated builds the meta of a list response
Apply_PaginationMeta_new ==
    /\ arg.fn = "PaginationMeta_new"
    /\ ~ret.set
    /\ ret' = [set |-> TRUE]
                @@ PaginationMeta_new(arg.total, arg.page, arg.per_page, arg.overflow_checks)
    /\ UNCHANGED << store, clock, overlap, arg, procs >>

\* find_all computes the offset and the limit of its page query
Apply_offset ==
    /\ arg.fn = "offset"
    /\ ~ret.set
    /\ ret' = [set |-> TRUE,
               offset |-> offset([page |-> arg.page, per_page |-> arg.per_page], arg.overflow_checks),
               limit |-> limit([page |-> arg.page, per_page |-> arg.per_page])]
    /\ UNCHANGED << store, clock, overlap, arg, procs >>

\* a document is written to the metadata column as to_json writes it and read
\* back by get_metadata
Apply_get_metadata ==
    /\ arg.fn = "get_metadata"
    /\ ~ret.set
    /\ LET json == SerPostMetadata(arg.m)
       IN  ret' = [set |-> TRUE, json |-> json, parsed |-> DePostMetadata(json),
                   metadata |-> get_metadata([metadata |-> json])]
    /\ UNCHANGED << store, clock, overlap, arg, procs >>

\* a service error leaves a controller through `?` and is turned into a response
Apply_into_response ==
    /\ arg.fn = "into_response"
    /\ ~ret.set
    /\ ret' = [set |-> TRUE, response |-> ServiceErrorResponse(arg.err)]
    /\ UNCHANGED << store, clock, overlap, arg, procs >>

\* two requests fail in the store, each with its own error
Apply_into_response_twice ==
    /\ arg.fn = "into_response_twice"
    /\ ~ret.set
    /\ ret' = [set |-> TRUE,
               first |-> ServiceErrorResponse(SvcDatabase(arg.first)),
               second |-> ServiceErrorResponse(SvcDatabase(arg.second))]
    /\ UNCHANGED << store, clock, overlap, arg, procs >>

\* the list item of a post is built from its content
Apply_excerpt ==
    /\ arg.fn = "excerpt"
    /\ ~ret.set
    /\ ret' = [set |-> TRUE] @@ excerpt(arg.content)
    /\ UNCHANGED << store, clock, overlap, arg, procs >>

\* the state after start-up: the tables as given, no request in flight
InitState(us, next_uid, ov, args) ==
    /\ users = us
    /\ posts = {}
    /\ next_user_id = next_uid
    /\ next_post_id = 1
    /\ clock = 0
    /\ overlap = ov
    /\ arg \in args
    /\ ret = NoRet
    /\ pc = [p \in Procs |-> "idle"]
    /\ req = [p \in Procs |-> NoReq]
    /\ loc = [p \in Procs |-> NoLoc]
    /\ resp = [p \in Procs |-> NoResp]
    /\ ops = [p \in Procs |-> << >>]

\* the migrations have run: both tables are empty
Init == InitState({}, 1, FALSE, {NoArg})

\* the endpoints of UserController
UserNext ==
    \/ \E p \in Procs : \E body \in CreateUserBodies : create_user_Start(p, body)
    \/ \E p \in Procs : create_user_Check(p)
    \/ \E p \in Procs : create_user_Insert(p)
    \/ \E p \in Procs : \E id \in PathIds : \E body \in UpdateUserBodies : update_user_Start(p, id, body)
    \/ \E p \in Procs : update_user_Find(p)
    \/ \E p \in Procs : update_user_Check(p)
    \/ \E p \in Procs : update_user_Update(p)
    \/ \E p \in Procs : \E id \in PathIds : delete_user_Start(p, id)
    \/ \E p \in Procs : delete_user_Exec(p)

\* the endpoints of PostController
PostNext ==
    \/ \E p \in Procs : \E body \in CreatePostBodies : create_post_Start(p, body)
    \/ \E p \in Procs : create_post_FindAuthor(p)
    \/ \E p \in Procs : create_post_Insert(p)
    \/ \E p \in Procs : \E id \in PostPathIds : \E body \in UpdatePostBodies : update_post_Start(p, id, body)
    \/ \E p \in Procs : update_post_Find(p)
    \/ \E p \in Procs : update_post_FindAuthor(p)
    \/ \E p \in Procs : update_post_Update(p)
    \/ \E p \in Procs : \E id \in PostPathIds : delete_post_Start(p, id)
    \/ \E p \in Procs : delete_post_Exec(p)

\* the read endpoints of UserController
UserReadNext ==
    \/ \E p \in Procs : \E id \in PathIds : get_user_Start(p, id)
    \/ \E p \in Procs : get_user_Find(p)
    \/ \E p \in Procs : \E q \in ListQueries : list_users_Start(p, q)
    \/ \E p \in Procs : list_users_Count(p)
    \/ \E p \in Procs : list_users_Select(p)

\* the read endpoints of PostController
PostReadNext ==
    \/ \E p \in Procs : \E id \in PostPathIds : get_post_Start(p, id)
    \/ \E p \in Procs : get_post_Find(p)
    \/ \E p \in Procs : get_post_FindAuthor(p)
    \/ \E p \in Procs : \E q \in ListQueries : list_posts_Start(p, q)
    \/ \E p \in Procs : list_posts_Count(p)
    \/ \E p \in Procs : list_posts_Select(p)
    \/ \E p \in Procs : list_posts_FindAuthor(p)

Environment ==
    \/ \E p \in Procs : Finish(p)
    \/ Tick

Next == UserNext \/ PostNext \/ UserReadNext \/ PostReadNext \/ Environment

\* the whole server, one request at a time
Spec == Init /\ [][Next]_vars

\* the user endpoints alone, one request at a time
UserSpec == Init /\ [][UserNext \/ Environment]_vars

\* the user endpoints alone, requests overlapping; the clients send fewer
\* kinds of body
OverlapCreateUserBodies ==
    { JObj([username |-> JStr(NameA), email |-> JStr(e)]) : e \in {EmailA, EmailB} }
    \cup { Malformed }
OverlapUpdateUserBodies ==
    { JEmptyObj, JObj([username |-> JStr(NameB)]),
      JObj([email |-> JStr(EmailA)]), JObj([email |-> JStr(EmailB)]) }
UserConcNext ==
    \/ \E p \in Procs : \E body \in OverlapCreateUserBodies : create_user_Start(p, body)
    \/ \E p \in Procs : create_user_Check(p)
    \/ \E p \in Procs : create_user_Insert(p)
    \/ \E p \in Procs : \E id \in PathIds : \E body \in OverlapUpdateUserBodies : update_user_Start(p, id, body)
    \/ \E p \in Procs : update_user_Find(p)
    \/ \E p \in Procs : update_user_Check(p)
    \/ \E p \in Procs : update_user_Update(p)
    \/ \E p \in Procs : \E id \in PathIds : delete_user_Start(p, id)
    \/ \E p \in Procs : delete_user_Exec(p)
UserConcInit == InitState({}, 1, TRUE, {NoArg})
UserConcSpec == UserConcInit /\ [][UserConcNext \/ Environment]_vars

\* the post endpoints and the deletion of users, one request at a time, from a
\* store that holds two users
TwoUsers ==
    { [id |-> 1, username |-> NameA, email |-> EmailA, created_at |-> 0],
      [id |-> 2, username |-> NameB, email |-> EmailB, created_at |-> 0] }
PostInit == InitState(TwoUsers, 3, FALSE, {NoArg})
PostDeleteUser ==
    \/ \E p \in Procs : \E id \in PathIds : delete_user_Start(p, id)
    \/ \E p \in Procs : delete_user_Exec(p)
PostSpec ==
    PostInit /\ [][PostNext \/ PostDeleteUser \/ UserReadNext \/ PostReadNext \/ Environment]_vars

\* the listing of posts with creations of posts and deletions of users,
\* requests overlapping, from a store that holds two users; the clients send
\* fewer kinds of body and of query
OverlapCreatePostBodies ==
    { JObj([title |-> JStr(TitleA), content |-> JStr(ContentA), author_id |-> JNum(1)]),
      JObj([title |-> JStr(TitleB), content |-> JStr(ContentB), author_id |-> JNum(2),
            metadata |-> MetaTags]) }
OverlapListQueries == [page : {None}, per_page : {None, Some(1)}]
PostConcNext ==
    \/ \E p \in Procs : \E body \in OverlapCreatePostBodies : create_post_Start(p, body)
    \/ \E p \in Procs : create_post_FindAuthor(p)
    \/ \E p \in Procs : create_post_Insert(p)
    \/ \E p \in Procs : \E q \in OverlapListQueries : list_posts_Start(p, q)
    \/ \E p \in Procs : list_posts_Count(p)
    \/ \E p \in Procs : list_posts_Select(p)
    \/ \E p \in Procs : list_posts_FindAuthor(p)
    \/ \E p \in Procs : \E id \in PathIds : delete_user_Start(p, id)
    \/ \E p \in Procs : delete_user_Exec(p)
PostConcInit == InitState(TwoUsers, 3, TRUE, {NoArg})
PostConcSpec == PostConcInit /\ [][PostConcNext \/ Environment]_vars

\* the creation and the update of posts, one request at a time, with metadata
\* documents at the validation limits and one step beyond them
TagNamed(n) == JObj([name |-> JStr(Rep("a", n))])
MetadataAtLimits ==
    { JObj([tags |-> JArr([i \in 1..10 |-> TagNamed(50)]),
            settings |-> JObj([reading_time_minutes |-> JNum(60)])]),
      JObj([tags |-> JArr(<< TagNamed(1) >>),
            settings |-> JObj([reading_time_minutes |-> JNum(1)])]),
      JObj([tags |-> JArr([i \in 1..11 |-> TagNamed(50)])]),
      JObj([tags |-> JArr(<< TagNamed(51) >>)]),
      JObj([tags |-> JArr(<< TagNamed(0) >>)]),
      JObj([settings |-> JObj([reading_time_minutes |-> JNum(0)])]),
      JObj([settings |-> JObj([reading_time_minutes |-> JNum(61)])]),
      JObj([settings |-> JObj([reading_time_minutes |-> JStr(<< "a" >>)])]),
      JObj([tags |-> JObj([name |-> JStr(<< "a" >>)])]),
      MetaFull, JEmptyObj, JNull }
LimitCreatePostBodies ==
    { JObj([title |-> JStr(TitleA), content |-> JStr(ContentA), author_id |-> JNum(1),
            metadata |-> m]) : m \in MetadataAtLimits }
    \cup { JObj([title |-> JStr(TitleA), content |-> JStr(ContentA), author_id |-> JNum(1)]) }
LimitUpdatePostBodies ==
    { JObj([metadata |-> m]) : m \in MetadataAtLimits } \cup { JEmptyObj }
PostMetaNext ==
    \/ \E p \in Procs : \E body \in LimitCreatePostBodies : create_post_Start(p, body)
    \/ \E p \in Procs : create_post_FindAuthor(p)
    \/ \E p \in Procs : create_post_Insert(p)
    \/ \E p \in Procs : \E id \in PostPathIds : \E body \in LimitUpdatePostBodies : update_post_Start(p, id, body)
    \/ \E p \in Procs : update_post_Find(p)
    \/ \E p \in Procs : update_post_FindAuthor(p)
    \/ \E p \in Procs : update_post_Update(p)
PostMetaSpec == PostInit /\ [][PostMetaNext \/ Environment]_vars

\* the reading of a post whose metadata column was not written by this
\* server and does not have the shape of PostMetadata, one request at a time
ForeignDocs ==
    { JNull, JNum(1), JStr(<< "a" >>), JEmptyObj,
      JObj([tags |-> JStr(<< "a" >>)]),
      JObj([tags |-> JArr(<< JObj([color |-> JStr(<< "c" >>)]) >>)]),
      JObj([tags |-> JArr(<< >>), seo |-> JNum(1)]),
      JObj([tags |-> JArr(<< >>), settings |-> JObj([featured |-> JBool(TRUE)])]) }
ForeignRowInit ==
    /\ users = TwoUsers
    /\ \E j \in ForeignDocs :
          posts = { [id |-> 1, title |-> TitleA, content |-> ContentA, author_id |-> 1,
                     metadata |-> j, published |-> FALSE, created_at |-> 0,
                     updated_at |-> None] }
    /\ next_user_id = 3
    /\ next_post_id = 2
    /\ clock = 0
    /\ overlap = FALSE
    /\ arg = NoArg
    /\ ret = NoRet
    /\ pc = [p \in Procs |-> "idle"]
    /\ req = [p \in Procs |-> NoReq]
    /\ loc = [p \in Procs |-> NoLoc]
    /\ resp = [p \in Procs |-> NoResp]
    /\ ops = [p \in Procs |-> << >>]
ForeignRowNext ==
    \/ \E p \in Procs : \E id \in PostPathIds : get_post_Start(p, id)
    \/ \E p \in Procs : get_post_Find(p)
    \/ \E p \in Procs : get_post_FindAuthor(p)
    \/ \E p \in Procs : \E q \in OverlapListQueries : list_posts_Start(p, q)
    \/ \E p \in Procs : list_posts_Count(p)
    \/ \E p \in Procs : list_posts_Select(p)
    \/ \E p \in Procs : list_posts_FindAuthor(p)
ForeignRowSpec == ForeignRowInit /\ [][ForeignRowNext \/ Environment]_vars

\* update-user alone, one request at a time, from a store that holds two
\* users; the clients send usernames and e-mails at and beyond the limits of
\* CreateUserDto
Label63 == Rep("a", 63)
EmailOf256 == Rep("a", 64) \o << "@" >> \o Label63 \o << "." >> \o Label63 \o << "." >> \o Label63
EmailOf255 == Rep("a", 63) \o << "@" >> \o Label63 \o << "." >> \o Label63 \o << "." >> \o Label63
RuleUpdateUserBodies ==
    { JObj([username |-> JStr(Rep("a", n))]) : n \in {2, 3, 50, 51} }
    \cup { JObj([email |-> JStr(e)]) : e \in {EmailA, EmailB, EmailOf255, EmailOf256, Rep("a", 3)} }
    \cup { JObj([username |-> JStr(Rep("a", 51)), email |-> JStr(EmailOf256)]) }
UserRulesNext ==
    \/ \E p \in Procs : \E id \in PathIds : \E body \in RuleUpdateUserBodies : update_user_Start(p, id, body)
    \/ \E p \in Procs : update_user_Find(p)
    \/ \E p \in Procs : update_user_Check(p)
    \/ \E p \in Procs : update_user_Update(p)
UserRulesSpec == PostInit /\ [][UserRulesNext \/ Environment]_vars

\* the two list endpoints alone, one request at a time, over a store that
\* holds two users and up to three posts written before the clock's origin,
\* two of them at the same instant
PostRow(id, author_id, created_at) ==
    [id |-> id, title |-> TitleA, content |-> ContentA, author_id |-> author_id,
     metadata |-> SerPostMetadata(DefaultPostMetadata), published |-> FALSE,
     created_at |-> created_at, updated_at |-> None]
ThreePosts == { PostRow(1, 1, -2), PostRow(2, 2, -2), PostRow(3, 1, -1) }
PageQueries == [page : {None, Some(0), Some(2), Some(3)}, per_page : {None, Some(0), Some(1), Some(2)}]
ListInit ==
    /\ users = TwoUsers
    /\ posts \in SUBSET ThreePosts
    /\ next_user_id = 3
    /\ next_post_id = 4
    /\ clock = 0
    /\ overlap = FALSE
    /\ arg = NoArg
    /\ ret = NoRet
    /\ pc = [p \in Procs |-> "idle"]
    /\ req = [p \in Procs |-> NoReq]
    /\ loc = [p \in Procs |-> NoLoc]
    /\ resp = [p \in Procs |-> NoResp]
    /\ ops = [p \in Procs |-> << >>]
ListNext ==
    \/ \E p \in Procs : \E q \in PageQueries : list_users_Start(p, q)
    \/ \E p \in Procs : list_users_Count(p)
    \/ \E p \in Procs : list_users_Select(p)
    \/ \E p \in Procs : \E q \in PageQueries : list_posts_Start(p, q)
    \/ \E p \in Procs : list_posts_Count(p)
    \/ \E p \in Procs : list_posts_Select(p)
    \/ \E p \in Procs : list_posts_FindAuthor(p)
ListSpec == ListInit /\ [][ListNext \/ Environment]_vars

\* updates and deletions of users and posts, requests overlapping, over a
\* store that holds two users and one post of the first; the clients send
\* fewer kinds of body
RaceUpdateUserBodies == { JEmptyObj, JObj([username |-> JStr(NameB)]), JObj([email |-> JStr(EmailB)]) }
RaceUpdatePostBodies == { JEmptyObj, JObj([title |-> JStr(TitleB)]) }
UpdateDeleteInit ==
    /\ users = TwoUsers
    /\ posts = { PostRow(1, 1, -1) }
    /\ next_user_id = 3
    /\ next_post_id = 2
    /\ clock = 0
    /\ overlap = TRUE
    /\ arg = NoArg
    /\ ret = NoRet
    /\ pc = [p \in Procs |-> "idle"]
    /\ req = [p \in Procs |-> NoReq]
    /\ loc = [p \in Procs |-> NoLoc]
    /\ resp = [p \in Procs |-> NoResp]
    /\ ops = [p \in Procs |-> << >>]
UpdateDeleteNext ==
    \/ \E p \in Procs : \E id \in PathIds : \E body \in RaceUpdateUserBodies : update_user_Start(p, id, body)
    \/ \E p \in Procs : update_user_Find(p)
    \/ \E p \in Procs : update_user_Check(p)
    \/ \E p \in Procs : update_user_Update(p)
    \/ \E p \in Procs : \E id \in PathIds : delete_user_Start(p, id)
    \/ \E p \in Procs : delete_user_Exec(p)
    \/ \E p \in Procs : \E id \in PostPathIds : \E body \in RaceUpdatePostBodies : update_post_Start(p, id, body)
    \/ \E p \in Procs : update_post_Find(p)
    \/ \E p \in Procs : update_post_FindAuthor(p)
    \/ \E p \in Procs : update_post_Update(p)
    \/ \E p \in Procs : \E id \in PostPathIds : delete_post_Start(p, id)
    \/ \E p \in Procs : delete_post_Exec(p)
UpdateDeleteSpec == UpdateDeleteInit /\ [][UpdateDeleteNext \/ Environment]_vars

\* the functions evaluated on their own, each on an input Init draws
PureInit == InitState({}, 1, FALSE, PureArgs)
PureNext ==
    \/ Apply_PaginationMeta_new
    \/ Apply_get_metadata
    \/ Apply_into_response
    \/ Apply_into_response_twice
    \/ Apply_excerpt
    \/ Apply_offset
PureSpec == PureInit /\ [][PureNext]_vars

\* ------------------------------------------------------------------------
\* Properties
\* ------------------------------------------------------------------------
\* a request of operation `op` that has been answered
Answered(p, op) == pc[p] = "done" /\ req[p].op = op

\* the paths under which a violation may name the tag field of the metadata
TagFieldPaths ==
    { "metadata", "tags", "name", "metadata.tags", "metadata.tags.name",
      "metadata.tags[0].name", "metadata.tags.0.name" }
\* a create-post body whose top-level fields are valid and whose metadata
\* carries a tag whose name is longer than 50 characters
TagNameTooLongBody(body) ==
    LET parsed == DeCreatePostDto(body)
    IN  /\ parsed.ok
        /\ CharCount(parsed.v.title) >= 3 /\ CharCount(parsed.v.title) <= 255
        /\ CharCount(parsed.v.content) >= 10
        /\ parsed.v.author_id >= 1
        /\ IsSome(parsed.v.metadata)
        /\ IsSome(parsed.v.metadata[1].tags)
        /\ Len(parsed.v.metadata[1].tags[1]) <= 10
        /\ \E i \in 1..Len(parsed.v.metadata[1].tags[1]) :
              CharCount(parsed.v.metadata[1].tags[1][i].name) > 50

\* C1: a create-post request whose title, content and author_id are valid and
\* whose metadata holds a tag with a name of more than 50 characters is
\* answered 422 with a non-empty violation list that names the tag field.
C1_NestedTagViolationListed ==
    \A p \in Procs :
        (Answered(p, "create_post") /\ TagNameTooLongBody(req[p].body))
            => /\ resp[p].status = 422
               /\ resp[p].violations # {}
               /\ \E v \in resp[p].violations : v.field \in TagFieldPaths

\* the same request is answered 422 (the part of C1 the handler does deliver)
C1_NestedTagRejected ==
    \A p \in Procs :
        (Answered(p, "create_post") /\ TagNameTooLongBody(req[p].body))
            => resp[p].status = 422 /\ ops[p] = << >>

\* a body the extractor's parser rejects, and one its validation rejects
Unparseable(body, De(_)) == ~De(body).ok
FailsValidation(body, De(_), Validate(_)) == De(body).ok /\ ~IsValid(Validate(De(body).v))
\* the order of the extractor's steps as the response and the request's store
\* operations show it
ExtractionOrdered(p, De(_), Validate(_)) ==
    /\ Unparseable(req[p].body, De) => resp[p].status = 400 /\ ops[p] = << >>
    /\ FailsValidation(req[p].body, De, Validate) => resp[p].status = 422 /\ ops[p] = << >>

\* the extractor's order on the request in slot p, whatever its endpoint
ExtractionOrderedAt(p) ==
    /\ Answered(p, "create_user") => ExtractionOrdered(p, DeCreateUserDto, ValidateCreateUserDto)
    /\ Answered(p, "update_user") => ExtractionOrdered(p, DeUpdateUserDto, ValidateUpdateUserDto)
    /\ Answered(p, "create_post") => ExtractionOrdered(p, DeCreatePostDto, ValidateCreatePostDto)
    /\ Answered(p, "update_post") => ExtractionOrdered(p, DeUpdatePostDto, ValidateUpdatePostDto)

\* C2: on every endpoint that takes a body, a body that does not parse is
\* answered 400, a body that parses and fails validation on any field, at the
\* top or nested, is answered 422, and in both cases the request issues no
\* store operation; so a create-post with an invalid title and an author that
\* does not exist is answered 422, not 404.
C2_ParseValidateThenService == \A p \in Procs : ExtractionOrderedAt(p)

\* the same for the requests whose validation returns: the order holds
\* wherever validate() does not panic
C2_OrderWhenValidationReturns ==
    \A p \in Procs : resp[p] # HandlerPanicked => ExtractionOrderedAt(p)

\* the stored users that hold `email`
Holders(email) == {u \in users : u.email = email}
\* no two stored users share an email
UniqueEmails == \A u, v \in users : u.email = v.email => u = v
\* the responses of ApiError::Conflict("Email already exists") and ApiError::DatabaseError
ConflictResponse ==
    [status |-> 409, error |-> "Conflict", details |-> Some("Email already exists")]
DatabaseErrorResponse == [status |-> 500, error |-> "Database error", details |-> None]
\* a create-user request the extractor accepted and the service answered
CreateUserAnswered(p) == Answered(p, "create_user") /\ "dto" \in DOMAIN req[p]
\* a create-user request that passed the existence check and went on to insert
PassedCheck(p) == CreateUserAnswered(p) /\ ops[p] = << "find_user_by_email", "insert_user" >>

\* C3: with requests served one after the other, a create-user request is
\* answered 201 and stores its row when no user holds the email, and is
\* answered 409 {error: "Conflict", details: "Email already exists"} without
\* inserting when one does; either way exactly one user holds the email after.
C3_SequentialDuplicateEmail ==
    \A p \in Procs :
        CreateUserAnswered(p) =>
            /\ Cardinality(Holders(req[p].dto.email)) = 1
            /\ \/ /\ resp[p].status = 201
                  /\ ops[p] = << "find_user_by_email", "insert_user" >>
                  /\ \E u \in Holders(req[p].dto.email) : resp[p].data = UserResponseFrom(u)
               \/ /\ resp[p] = ConflictResponse
                  /\ ops[p] = << "find_user_by_email" >>

\* the second of two create-user requests with one email has been answered 409
C3_SecondCreateAnswered409 ==
    \E p \in Procs :
        /\ Answered(p, "create_user")
        /\ resp[p] = ConflictResponse
        /\ Cardinality(Holders(req[p].dto.email)) = 1

\* C4 as stated: when two overlapping create-user requests with one email have
\* both passed the existence check and been answered, the store holds two
\* users with that email.
C4_OverlappingCreatesStoreTwo ==
    \A p, q \in Procs :
        (p # q /\ PassedCheck(p) /\ PassedCheck(q) /\ req[p].dto.email = req[q].dto.email)
            => Cardinality(Holders(req[p].dto.email)) = 2

\* C4 amended: overlapping create-user requests with one email can both pass
\* the existence check, but the insert that finds the email already stored is
\* refused by the unique constraint on users.email: the request is answered
\* 500 "Database error" and writes no row, the other insert is answered 201
\* and adds one row, and the store never holds two users with one email.
C4_UniqueConstraintRefusesSecondInsert ==
    [][ /\ UniqueEmails'
        /\ \A p \in Procs :
              (pc[p] = "cu_insert" /\ pc'[p] = "done") =>
                  IF Holders(req[p].dto.email) # {}
                  THEN resp'[p] = DatabaseErrorResponse /\ users' = users
                  ELSE /\ resp'[p].status = 201
                       /\ \E u \in users' \ users :
                             /\ users' = users \cup {u}
                             /\ u.email = req[p].dto.email
                             /\ resp'[p].data = UserResponseFrom(u) ]_vars

\* two overlapping create-user requests with one email both passed the check;
\* one was answered 201, the other 500, and one user holds the email
C4_BothPassedOneStored ==
    \E p, q \in Procs :
        /\ p # q /\ PassedCheck(p) /\ PassedCheck(q)
        /\ req[p].dto.email = req[q].dto.email
        /\ resp[p].status = 201
        /\ resp[q] = DatabaseErrorResponse
        /\ Cardinality(Holders(req[p].dto.email)) = 1

\* C5: with requests served one after the other, an update-user request whose
\* email differs from the user's and is held by another user is answered 409
\* and leaves the row as it was; one whose email equals the user's own makes no
\* email lookup and is answered 200; and no two stored users share an email.
C5_UpdateEmailUniqueness ==
    /\ UniqueEmails
    /\ \A p \in Procs :
          (Answered(p, "update_user") /\ "dto" \in DOMAIN req[p] /\ loc[p].set) =>
              LET dto == req[p].dto
                  cur == loc[p].user
              IN  /\ (IsSome(dto.email) /\ dto.email[1] = cur.email)
                        => /\ ops[p] = << "find_user_by_id", "update_user" >>
                           /\ resp[p].status = 200
                  /\ (/\ IsSome(dto.email) /\ dto.email[1] # cur.email
                      /\ \E u \in users : u.id # cur.id /\ u.email = dto.email[1])
                        => /\ resp[p] = ConflictResponse
                           /\ ops[p] = << "find_user_by_id", "find_user_by_email" >>
                           /\ cur \in users

\* an update-user request asked for an email another user holds and got 409
C5_UpdateToTakenEmailAnswered409 ==
    \E p \in Procs :
        /\ Answered(p, "update_user")
        /\ resp[p] = ConflictResponse
        /\ \E u \in users : u.id # loc[p].user.id /\ u.email = req[p].dto.email[1]

\* the response of ApiError::NotFound
NotFoundResponse == [status |-> 404, error |-> "Resource not found", details |-> None]

\* C6: a create-post request whose author_id resolves to no user is answered
\* 404 by the author lookup, the only store operation it issues, and the set of
\* posts is the same after the request as before.
C6_MissingAuthorWritesNoPost ==
    [][ \A p \in Procs :
          (/\ pc[p] = "cp_find" /\ pc'[p] # "cp_find"
           /\ IsNone(find_user_by_id(req[p].dto.author_id)))
              => /\ pc'[p] = "done"
                 /\ resp'[p] = NotFoundResponse
                 /\ ops'[p] = << "find_user_by_id" >>
                 /\ posts' = posts ]_vars

\* a create-post request naming an author that does not exist got 404
C6_MissingAuthorAnswered404 ==
    \E p \in Procs :
        /\ Answered(p, "create_post")
        /\ resp[p] = NotFoundResponse
        /\ ops[p] = << "find_user_by_id" >>
        /\ IsNone(find_user_by_id(req[p].dto.author_id))

\* the value an update leaves in a field: the supplied one, or the old one
Kept(supplied, old) == IF IsSome(supplied) THEN supplied[1] ELSE old

\* C7: a successful post update sets title, content, metadata and published
\* to the supplied value where one is supplied and leaves them as they were
\* where none is, keeps id, author_id and created_at, and touches no other
\* row; a successful user update does the same with username and email.
C7_UpdateChangesOnlySuppliedFields ==
    [][ /\ \A p \in Procs :
              (pc[p] = "up_update" /\ pc'[p] = "done" /\ resp'[p].status = 200) =>
                  LET dto == req[p].dto
                      old == CHOOSE q \in posts : q.id = loc[p].existing.id
                      new == CHOOSE q \in posts' : q.id = loc[p].existing.id
                  IN  /\ posts' \ {new} = posts \ {old}
                      /\ new.id = old.id
                      /\ new.author_id = old.author_id
                      /\ new.created_at = old.created_at
                      /\ new.title = Kept(dto.title, old.title)
                      /\ new.content = Kept(dto.content, old.content)
                      /\ new.published = Kept(dto.published, old.published)
                      /\ new.metadata = IF IsSome(dto.metadata)
                                        THEN to_json(dto.metadata[1]) ELSE old.metadata
        /\ \A p \in Procs :
              (pc[p] = "uu_update" /\ pc'[p] = "done" /\ resp'[p].status = 200) =>
                  LET dto == req[p].dto
                      old == CHOOSE u \in users : u.id = loc[p].user.id
                      new == CHOOSE u \in users' : u.id = loc[p].user.id
                  IN  /\ users' \ {new} = users \ {old}
                      /\ new.id = old.id
                      /\ new.created_at = old.created_at
                      /\ new.username = Kept(dto.username, old.username)
                      /\ new.email = Kept(dto.email, old.email)
        /\ \A q \in posts : \A r \in posts' :
              r.id = q.id => r.author_id = q.author_id /\ r.created_at = q.created_at ]_vars

\* a post created with tags and published was updated with a title only: the
\* stored row has the new title and still the tags and the published flag
C7_PartialPostUpdateDone ==
    \E p \in Procs :
        /\ Answered(p, "update_post")
        /\ resp[p].status = 200
        /\ IsSome(req[p].dto.title) /\ IsNone(req[p].dto.content)
        /\ IsNone(req[p].dto.metadata) /\ IsNone(req[p].dto.published)
        /\ \E q \in posts :
              /\ q.id = req[p].id
              /\ q.title = req[p].dto.title[1]
              /\ q.title # loc[p].existing.title
              /\ q.published
              /\ get_metadata(q).tags # << >>

\* C8: a create-post request without metadata that is answered 201 stores the
\* default metadata document and returns it: tags empty, no seo, no settings.
C8_AbsentMetadataStoredAsDefault ==
    \A p \in Procs :
        (/\ Answered(p, "create_post") /\ "dto" \in DOMAIN req[p]
         /\ IsNone(req[p].dto.metadata) /\ resp[p].status = 201)
            => /\ resp[p].data.metadata = [tags |-> << >>, seo |-> None, settings |-> None]
               /\ \E q \in posts :
                     /\ q.id = resp[p].data.id
                     /\ DePostMetadata(q.metadata) = Ok(DefaultPostMetadata)

\* a post was created from a body without metadata
C8_CreatedWithoutMetadata ==
    \E p \in Procs :
        /\ Answered(p, "create_post")
        /\ resp[p].status = 201
        /\ IsNone(req[p].dto.metadata)
        /\ \E q \in posts : q.id = resp[p].data.id

\* C9: the JSON value a metadata document serialises to deserialises to that
\* document, so get_metadata on a row holding it returns the document and
\* never falls back to the default.
C9_MetadataRoundTrip ==
    (arg.fn = "get_metadata" /\ ret.set)
        => /\ ret.parsed = Ok(arg.m)
           /\ ret.metadata = arg.m

\* a document with two tags, seo and settings went through the round trip
C9_FullDocumentRead ==
    /\ arg.fn = "get_metadata" /\ ret.set
    /\ Len(arg.m.tags) = 2 /\ IsSome(arg.m.tags[1].color)
    /\ IsSome(arg.m.seo) /\ arg.m.seo[1].keywords # << >>
    /\ IsSome(arg.m.settings) /\ IsSome(arg.m.settings[1].reading_time_minutes)
    /\ ret.metadata # DefaultPostMetadata

\* ceil(total / per_page) over the naturals
CeilDiv(total, per_page) ==
    CHOOSE k \in 0..total : k * per_page >= total /\ (k = 0 \/ (k - 1) * per_page < total)

\* C10: for every total >= 0 and per_page >= 1 of the unsigned range,
\* PaginationMeta::new returns total_pages = ceil(total / per_page).
C10_TotalPagesIsCeiling ==
    (arg.fn = "PaginationMeta_new" /\ ret.set /\ arg.per_page >= 1)
        => /\ ~ret.panic
           /\ ret.v.total_pages = CeilDiv(arg.total, arg.per_page)

\* the same where total + per_page stays within the unsigned range
C10_TotalPagesIsCeilingWithoutOverflow ==
    (arg.fn = "PaginationMeta_new" /\ ret.set /\ arg.per_page >= 1
        /\ arg.total + arg.per_page < Modulus)
        => /\ ~ret.panic
           /\ ret.v.total_pages = CeilDiv(arg.total, arg.per_page)

\* a list request that has sent its page query to the store
PageQueried(p) == req[p].op \in {"list_users", "list_posts"} /\ "limit" \in DOMAIN loc[p]

\* C11: the limit a list request passes to the store is at least 1 and at most
\* 100, whatever per_page the query carries
C11_LimitBetweenOneAndHundred ==
    \A p \in Procs : PageQueried(p) => (loc[p].limit >= 1 /\ loc[p].limit <= 100)

\* the response the mapping gives a business error, with `label` the error label
\* of a store failure
MappedResponse(err, label) ==
    CASE err.kind = "NotFound" -> [status |-> 404, error |-> "Resource not found", details |-> None]
      [] err.kind = "AlreadyExists" -> [status |-> 409, error |-> "Conflict", details |-> Some(err.msg)]
      [] err.kind = "Database" -> [status |-> 500, error |-> label, details |-> None]

\* C12 as stated: NotFound is answered 404, AlreadyExists(detail) 409 with the
\* detail in the body, and a store failure 500 with the error label
\* "Internal server error" and no detail
C12_StoreFailureIsInternalServerError ==
    (arg.fn = "into_response" /\ ret.set)
        => ret.response = MappedResponse(arg.err, "Internal server error")

\* C12: NotFound is answered 404, AlreadyExists(detail) 409 with the detail in
\* the body, and a store failure 500 with the error label "Database error" and
\* no detail; no business error is answered with another status
C12_StoreFailureIsDatabaseError ==
    (arg.fn = "into_response" /\ ret.set)
        => ret.response = MappedResponse(arg.err, "Database error")

\* a store failure has been turned into a response
C12_StoreFailureMapped ==
    arg.fn = "into_response" /\ ret.set /\ arg.err.kind = "Database"

\* C13: the responses to two store failures are identical, whatever the two
\* errors' texts: status 500, the same body, no details
C13_StoreFailureResponseIgnoresDetail ==
    (arg.fn = "into_response_twice" /\ ret.set)
        => /\ ret.first = ret.second
           /\ ret.first.status = 500
           /\ ret.first.details = None

\* two store failures of different text have been answered
C13_TwoDifferentFailuresAnswered ==
    arg.fn = "into_response_twice" /\ ret.set /\ arg.first # arg.second

\* C15: the excerpt of a content of more than 100 characters is its first 100
\* characters followed by "...", the excerpt of a shorter content is the
\* content, and it is produced for every content
C15_ExcerptIsFirstHundredCharacters ==
    (arg.fn = "excerpt" /\ ret.set)
        => /\ ~ret.panic
           /\ ret.v = IF CharCount(arg.content) > 100
                      THEN SubSeq(arg.content, 1, 100) \o << ".", ".", "." >>
                      ELSE arg.content

\* what a step of a delete or of a get by id does, with `cascade` telling whether
\* a user's delete also removes the posts that user authored
DeleteContract(p, cascade) ==
    /\ (pc[p] = "du_exec" /\ pc'[p] = "done") =>
          LET present == \E u \in users : u.id = req[p].id
          IN  /\ resp'[p] = IF present THEN NoContentResponse ELSE NotFoundResponse
              /\ users' = {u \in users : u.id # req[p].id}
              /\ posts' = IF cascade THEN {q \in posts : q.author_id # req[p].id} ELSE posts
              /\ ~present => (users' = users /\ posts' = posts)
    /\ (pc[p] = "dp_exec" /\ pc'[p] = "done") =>
          LET present == \E q \in posts : q.id = req[p].id
          IN  /\ resp'[p] = IF present THEN NoContentResponse ELSE NotFoundResponse
              /\ posts' = {q \in posts : q.id # req[p].id}
              /\ users' = users
    /\ (pc[p] = "gu_find" /\ pc'[p] = "done") =>
          (resp'[p] = NotFoundResponse <=> ~\E u \in users : u.id = req[p].id)
    /\ (pc[p] = "gp_find" /\ pc'[p] # "gp_find") =>
          (resp'[p] = NotFoundResponse <=> ~\E q \in posts : q.id = req[p].id)
\* an id the table has handed out and holds no row for stays without a row
IdsNotReused ==
    /\ \A id \in 1..(next_user_id - 1) :
          (~\E u \in users : u.id = id) => (~\E u \in users' : u.id = id)
    /\ \A id \in 1..(next_post_id - 1) :
          (~\E q \in posts : q.id = id) => (~\E q \in posts' : q.id = id)

\* C14 as stated: a delete is answered 204 exactly when a row with the id
\* exists and removes only that row; a get or a delete of an id without a row
\* is answered NotFound and changes nothing, and a deleted id stays without a row
C14_DeleteRemovesOnlyThatRow ==
    [][IdsNotReused /\ \A p \in Procs : DeleteContract(p, FALSE)]_vars

\* C14: a delete is answered 204 exactly when a row with the id exists and
\* removes that row and, for a user, the posts of that author, and no other row;
\* a get or a delete of an id without a row is answered NotFound and changes
\* nothing, and a deleted id stays without a row
C14_DeleteRemovesRowAndItsPosts ==
    [][IdsNotReused /\ \A p \in Procs : DeleteContract(p, TRUE)]_vars

\* a user was deleted and a second delete of the same id has been answered 404
C14_SecondDeleteAnswered404 ==
    \E p \in Procs :
        /\ Answered(p, "delete_user")
        /\ req[p].id < next_user_id
        /\ resp[p] = NotFoundResponse

\* every stored post's author_id is the id of a stored user
AuthorsStored(ps, us) == \A q \in ps : \E u \in us : u.id = q.author_id

\* C17 as stated: a user delete deletes or modifies no post row
C17_UserDeleteKeepsPosts ==
    [][\A p \in Procs : (pc[p] = "du_exec" /\ pc'[p] = "done") => posts' = posts]_vars

\* C17: a user delete removes the posts that user authored and no other, so no
\* stored post has an author_id without a user; a get of a removed post is
\* answered NotFound by the post lookup, and the author lookup of a get never
\* fails
C17_UserDeleteRemovesAuthoredPosts ==
    [][\A p \in Procs :
          /\ (pc[p] = "du_exec" /\ pc'[p] = "done") =>
                /\ posts' = {q \in posts : q.author_id # req[p].id}
                /\ AuthorsStored(posts', users')
          /\ (pc[p] = "gp_find" /\ pc'[p] = "done") =>
                /\ resp'[p] = NotFoundResponse
                /\ ~\E q \in posts : q.id = req[p].id
          /\ (pc[p] = "gp_author" /\ pc'[p] = "done") => resp'[p].status = 200]_vars

\* the delete of a user who authored a stored post is at its store operation
C17_DeletingAnAuthor ==
    \E p \in Procs :
        /\ pc[p] = "du_exec"
        /\ \E u \in users : u.id = req[p].id
        /\ \E q \in posts : q.author_id = req[p].id

\* the {data, meta} envelope of a list response
IsListEnvelope(r) == r.status = 200 /\ {"data", "meta"} \subseteq DOMAIN r

\* C16: a request to list the posts is answered 200 with the {data, meta}
\* envelope, also when deletes of users overlap with it
C16_ListPostsAlwaysSucceeds ==
    \A p \in Procs : Answered(p, "list_posts") => IsListEnvelope(resp[p])

\* when no request overlaps with it, a request to list the posts with a
\* per_page of at least 1 is answered 200 with the envelope
C16_ListPostsSucceedsAlone ==
    \A p \in Procs :
        (Answered(p, "list_posts") /\ ~overlap /\ req[p].pagination.per_page >= 1)
            => IsListEnvelope(resp[p])

\* the stored post of id `id`
StoredPost(ps, id) == CHOOSE q \in ps : q.id = id
\* the step of request p is the write of a successful update-post
UpdatePostWrites(p) == pc[p] = "up_update" /\ pc'[p] = "done" /\ resp'[p].status = 200

\* C18: when an update-post DTO carries metadata, the stored document becomes
\* the document built from the DTO: tags, seo or settings the DTO leaves out
\* are empty or None in the store, whatever the document held before
C18_MetadataReplacedAsAWhole ==
    [][\A p \in Procs :
          (UpdatePostWrites(p) /\ IsSome(req[p].dto.metadata)) =>
              LET dto == req[p].dto.metadata[1]
                  doc == get_metadata(StoredPost(posts', req[p].id))
              IN  /\ DePostMetadata(StoredPost(posts', req[p].id).metadata).ok
                  /\ doc = PostMetadataFromDto(dto)
                  /\ IsNone(dto.tags) => doc.tags = << >>
                  /\ IsNone(dto.seo) => doc.seo = None
                  /\ IsNone(dto.settings) => doc.settings = None]_vars

\* an update whose metadata has no seo was applied to a post whose document
\* had one, and the stored document has none
C18_SeoDroppedByUpdate ==
    \E p \in Procs :
        /\ Answered(p, "update_post") /\ resp[p].status = 200
        /\ IsSome(req[p].dto.metadata) /\ IsNone(req[p].dto.metadata[1].seo)
        /\ IsSome(get_metadata(loc[p].existing).seo)
        /\ \E q \in posts : q.id = req[p].id /\ get_metadata(q).seo = None

\* C19: a post is created with updated_at null; a successful update, also one
\* whose DTO has no field, writes the time the handler read from the clock when
\* it built the update; and updated_at changes in no other step, so a failed
\* update leaves it as it was
C19_UpdatedAtStampedByEveryUpdate ==
    [][/\ \A q \in posts' : (~\E o \in posts : o.id = q.id) => q.updated_at = None
       /\ \A p \in Procs :
             (pc[p] = "up_author" /\ pc'[p] = "up_update")
                 => loc'[p].changes.updated_at = Some(Some(clock))
       /\ \A p \in Procs :
             UpdatePostWrites(p) =>
                 /\ StoredPost(posts', req[p].id).updated_at = loc[p].changes.updated_at[1]
                 /\ IsSome(StoredPost(posts', req[p].id).updated_at)
                 /\ StoredPost(posts', req[p].id).updated_at[1] <= clock
       /\ \A o \in posts : \A q \in posts' :
             (o.id = q.id /\ o.updated_at # q.updated_at)
                 => \E p \in Procs : UpdatePostWrites(p) /\ req[p].id = q.id]_vars

\* an update whose DTO has no field was applied to a post never updated before,
\* and the stored post has a time in updated_at
C19_EmptyUpdateStamped ==
    \E p \in Procs :
        /\ Answered(p, "update_post") /\ resp[p].status = 200
        /\ req[p].body = JEmptyObj
        /\ loc[p].existing.updated_at = None
        /\ \E q \in posts : q.id = req[p].id /\ IsSome(q.updated_at)

\* C20: the metadata column of every stored post deserializes to PostMetadata
\* and holds at most 10 tags, tag names of 1 to 50 characters and, when
\* present, a reading_time_minutes of 1 to 60
C20_StoredMetadataValid ==
    \A q \in posts :
        LET parsed == DePostMetadata(q.metadata)
        IN  /\ parsed.ok
            /\ Len(parsed.v.tags) <= 10
            /\ \A i \in 1..Len(parsed.v.tags) :
                  CharCount(parsed.v.tags[i].name) >= 1 /\ CharCount(parsed.v.tags[i].name) <= 50
            /\ (IsSome(parsed.v.settings) /\ IsSome(parsed.v.settings[1].reading_time_minutes))
                  => (parsed.v.settings[1].reading_time_minutes[1] >= 1
                      /\ parsed.v.settings[1].reading_time_minutes[1] <= 60)

\* a post holds a document at the limits: 10 tags with names of 50 characters
\* and a reading time of 60
C20_DocumentAtLimitsStored ==
    \E q \in posts :
        /\ Len(get_metadata(q).tags) = 10
        /\ CharCount(get_metadata(q).tags[1].name) = 50
        /\ get_metadata(q).settings[1].reading_time_minutes = Some(60)

\* C21: a post whose stored metadata does not have the shape of PostMetadata
\* is read as the default document: get_metadata returns tags = [], seo = None,
\* settings = None, a get of the post is answered 200 with that document and a
\* list is answered 200 with an item of no tags
C21_ForeignMetadataReadAsDefault ==
    /\ \A q \in posts :
          ~DePostMetadata(q.metadata).ok => get_metadata(q) = DefaultPostMetadata
    /\ \A p \in Procs :
          (Answered(p, "get_post") /\ \E q \in posts : q.id = req[p].id) =>
              /\ resp[p].status = 200
              /\ resp[p].data.metadata = [tags |-> << >>, seo |-> None, settings |-> None]
    /\ \A p \in Procs :
          Answered(p, "list_posts") =>
              /\ IsListEnvelope(resp[p])
              /\ \A i \in 1..Len(resp[p].data) : resp[p].data[i].tags = << >>

\* a get of the post with the foreign document has been answered, and so has
\* a list that holds it
C21_ForeignPostRead ==
    \E p \in Procs :
        /\ \A q \in posts : ~DePostMetadata(q.metadata).ok
        /\ \/ Answered(p, "get_post") /\ req[p].id = 1
           \/ Answered(p, "list_posts") /\ resp[p].status = 200 /\ Len(resp[p].data) = 1

\* C22: a post row a create-post writes has, in the state it is written in,
\* an author_id that is the id of a stored user, also when deletes of users
\* overlap with the create; and every stored post has a stored author
C22_WrittenPostHasStoredAuthor ==
    [][/\ \A q \in posts' :
             (~\E o \in posts : o.id = q.id) =>
                 /\ \E u \in users : u.id = q.author_id
                 /\ \E u \in users' : u.id = q.author_id
       /\ AuthorsStored(posts', users')]_vars

\* the author was deleted between the existence check and the insert of a
\* create-post, and the store refused the insert
C22_InsertRefusedAfterAuthorDeleted ==
    \E p \in Procs :
        /\ Answered(p, "create_post")
        /\ ops[p] = << "find_user_by_id", "insert_post" >>
        /\ resp[p] = DatabaseErrorResponse
        /\ ~\E u \in users : u.id = req[p].dto.author_id
        /\ \A q \in posts : q.author_id # req[p].dto.author_id

\* the write of request p would give a second user the e-mail `email`
BreaksUniqueEmail(p, email, id) == \E u \in users : u.email = email /\ u.id # id

\* C23: a create-user or update-user that passed the service's e-mail check
\* and whose write the unique constraint refuses is answered 500 with a body
\* without details, not 409, and writes no row
C23_RefusedWriteAnswered500 ==
    [][\A p \in Procs :
          /\ (pc[p] = "cu_insert" /\ pc'[p] = "done"
                  /\ BreaksUniqueEmail(p, req[p].dto.email, 0)) =>
                /\ resp'[p].status = 500
                /\ resp'[p].details = None
                /\ users' = users
          /\ (pc[p] = "uu_update" /\ pc'[p] = "done"
                  /\ IsSome(req[p].dto.email)
                  /\ req[p].dto.email[1] # loc[p].user.email
                  /\ BreaksUniqueEmail(p, req[p].dto.email[1], req[p].id)) =>
                /\ resp'[p].status = 500
                /\ resp'[p].details = None
                /\ users' = users]_vars

\* an update-user passed the e-mail check, another request then stored the
\* e-mail, and the update's write was refused and answered 500
C23_UpdateLostTheRace ==
    \E p \in Procs :
        /\ Answered(p, "update_user")
        /\ ops[p] = << "find_user_by_id", "find_user_by_email", "update_user" >>
        /\ resp[p] = DatabaseErrorResponse
        /\ \E u \in users : u.id = req[p].id /\ u.email # req[p].dto.email[1]
        /\ \E u \in users : u.id # req[p].id /\ u.email = req[p].dto.email[1]

\* the violations of the response in slot p hold an entry for `field` with
\* exactly the messages `msgs`
Listed(p, field, msgs) ==
    \E v \in resp[p].violations :
        /\ v.field = field
        /\ {v.messages[i] : i \in 1..Len(v.messages)} = msgs
\* the messages the rules of CreateUserDto.email give for `email`
EmailMessages(email) ==
    (IF validate_email(email) THEN {} ELSE {"Invalid email format"})
    \cup (IF CharCount(email) > 255 THEN {"Email must not exceed 255 characters"} ELSE {})

UsernameRuleHolds(username) == CharCount(username) >= 3 /\ CharCount(username) <= 50
EmailRulesHold(email) == validate_email(email) /\ CharCount(email) <= 255
\* an update-user body that parses and has a present field which fails the
\* rules listed in `rules` ("username", "email format", "email length")
UpdateFailsRule(body, rules) ==
    /\ DeUpdateUserDto(body).ok
    /\ LET dto == DeUpdateUserDto(body).v
       IN  \/ "username" \in rules /\ IsSome(dto.username) /\ ~UsernameRuleHolds(dto.username[1])
           \/ "email format" \in rules /\ IsSome(dto.email) /\ ~validate_email(dto.email[1])
           \/ "email length" \in rules /\ IsSome(dto.email) /\ CharCount(dto.email[1]) > 255

\* C25: an update-user whose present username or e-mail fails a rule of
\* create-user (username of 3 to 50 characters, e-mail well-formed and of at
\* most 255 characters) is answered 422 and issues no store operation, so no
\* stored user holds an e-mail of more than 255 characters
C25_UpdateAppliesCreateRules ==
    /\ \A p \in Procs :
          (Answered(p, "update_user")
              /\ UpdateFailsRule(req[p].body, {"username", "email format", "email length"})) =>
                resp[p].status = 422 /\ ops[p] = << >>
    /\ \A u \in users : EmailRulesHold(u.email)

\* the part of C25 that update-user does deliver: the username rule and the
\* format rule of the e-mail
C25_UpdateAppliesUsernameAndFormatRules ==
    \A p \in Procs :
        (Answered(p, "update_user")
            /\ UpdateFailsRule(req[p].body, {"username", "email format"})) =>
              resp[p].status = 422 /\ ops[p] = << >>

\* offset() has been evaluated on the page and per_page of arg
OffsetComputed == ret.set /\ arg.fn = "offset"

\* C26: for every page and per_page of the unsigned word, offset() returns
\* (page - 1) * per_page, with page - 1 taken as 0 for page = 0, and limit()
\* returns per_page; the offset is never a wrapped value and the computation
\* never faults
C26_OffsetIsPageMinusOneTimesPerPage ==
    OffsetComputed =>
        /\ ~ret.offset.panic
        /\ ret.offset.v = (IF arg.page = 0 THEN 0 ELSE arg.page - 1) * arg.per_page
        /\ ret.limit = arg.per_page

\* the part of C26 that offset() does deliver: the value is exact whenever the
\* product fits the word, page = 0 gives offset 0, and limit is per_page
C26_OffsetExactWhenProductFits ==
    OffsetComputed =>
        /\ ret.limit = arg.per_page
        /\ (IF arg.page = 0 THEN 0 ELSE arg.page - 1) * arg.per_page < Modulus =>
              /\ ~ret.offset.panic
              /\ ret.offset.v = (IF arg.page = 0 THEN 0 ELSE arg.page - 1) * arg.per_page
        /\ arg.page = 0 => ~ret.offset.panic /\ ret.offset.v = 0

\* the positions offset .. offset + limit - 1, counted from 0, of a collection
\* of n rows, as positions counted from 1
PagePositions(pagination, n) ==
    LET first == (IF pagination.page = 0 THEN 0 ELSE pagination.page - 1) * pagination.per_page
    IN  {i \in 1..n : i > first /\ i <= first + pagination.per_page}
\* the ids of the rows of `rows` at those positions when the rows are in the
\* order `s`, a sequence of all the rows
IdsOfPage(s, pagination) ==
    LET at == PagePositions(pagination, Len(s))
        lo == IF at = {} THEN 1 ELSE CHOOSE i \in at : \A j \in at : i <= j
    IN  [k \in 1..Cardinality(at) |-> s[lo + k - 1].id]
\* the sequences that hold every row of `rows` once
Orders(rows) ==
    {s \in [1..Cardinality(rows) -> rows] : \A i, j \in DOMAIN s : i # j => s[i] # s[j]}
\* the response in slot p is a page of `rows` in the order `s` with the meta
\* of the query
IsPageOf(p, s) ==
    /\ resp[p].status = 200
    /\ [i \in DOMAIN resp[p].data |-> resp[p].data[i].id] = IdsOfPage(s, req[p].pagination)
    /\ resp[p].meta.total = Len(s)
    /\ resp[p].meta.page = req[p].pagination.page
    /\ resp[p].meta.per_page = req[p].pagination.per_page
    /\ PagePositions(req[p].pagination, Len(s)) = {} => resp[p].data = << >>

\* C27: a list request with per_page of at least 1 is answered with the rows
\* at positions offset .. offset + limit - 1 of the stored rows in order, the
\* users by ascending id and the posts by descending creation time, with
\* total the number of stored rows, an empty data on a page past the last,
\* and the page and per_page of the query in meta
C27_ListReturnsThePageOfTheOrderedRows ==
    \A p \in Procs :
        /\ (Answered(p, "list_users") /\ req[p].pagination.per_page >= 1) =>
              \E s \in Orders(users) :
                  /\ \A i, j \in DOMAIN s : i < j => s[i].id < s[j].id
                  /\ IsPageOf(p, s)
        /\ (Answered(p, "list_posts") /\ req[p].pagination.per_page >= 1) =>
              \E s \in Orders(posts) :
                  /\ \A i, j \in DOMAIN s : i < j => s[i].created_at >= s[j].created_at
                  /\ IsPageOf(p, s)

\* the second page of two posts per page over three stored posts was served:
\* one post, the oldest, with total 3
C27_SecondPageOfPostsServed ==
    \E p \in Procs :
        /\ Answered(p, "list_posts")
        /\ req[p].pagination = [page |-> 2, per_page |-> 2]
        /\ Cardinality(posts) = 3
        /\ resp[p].status = 200
        /\ Len(resp[p].data) = 1
        /\ resp[p].data[1].created_at = -2
        /\ resp[p].meta.total = 3

\* a list request that was answered with the {data, meta} envelope
ListAnswered(p) ==
    /\ Answered(p, "list_users") \/ Answered(p, "list_posts")
    /\ IsListEnvelope(resp[p])

\* C28: in every list response data holds at most meta.total items, also when
\* creations and deletions run between the list's count query and its page
\* query
C28_ItemsWithinTotal ==
    \A p \in Procs : ListAnswered(p) => Len(resp[p].data) <= resp[p].meta.total

\* the part of C28 the handlers do deliver: data holds at most meta.total
\* items when no other request runs during the list
C28_ItemsWithinTotalAlone ==
    \A p \in Procs : (ListAnswered(p) /\ ~overlap) => Len(resp[p].data) <= resp[p].meta.total

\* the step is the write of the update in slot p, at `at`, of a row whose id
\* the table `rows` no longer holds
WritesDeletedRow(p, at, id, rows) ==
    /\ pc[p] = at /\ pc'[p] = "done"
    /\ ~\E r \in rows : r.id = id

\* C29: an update whose row was deleted between its lookup and its write
\* writes nothing and is answered with an error; no step of an update or of
\* a delete brings back the id of a row that is not stored
C29_UpdateNeverRecreatesDeletedRow ==
    [][/\ \A p \in Procs :
            /\ WritesDeletedRow(p, "uu_update", req[p].id, users) =>
                  /\ resp'[p].status >= 400
                  /\ users' = users /\ posts' = posts
            /\ WritesDeletedRow(p, "up_update", req[p].id, posts) =>
                  /\ resp'[p].status >= 400
                  /\ users' = users /\ posts' = posts
       /\ {u.id : u \in users'} \subseteq {u.id : u \in users}
       /\ {q.id : q \in posts'} \subseteq {q.id : q \in posts}]_vars

\* an update-post found its post and the author, the post was deleted, and
\* the update's write was answered 500 with the post still absent
C29_UpdateAfterDeleteAnswered500 ==
    \E p \in Procs :
        /\ Answered(p, "update_post")
        /\ ops[p] = << "find_post_by_id", "find_user_by_id", "update_post" >>
        /\ resp[p] = DatabaseErrorResponse
        /\ ~\E q \in posts : q.id = req[p].id

\* C30: a list request whose per_page is 0 is answered with a well-formed
\* response, the {data, meta} envelope with status 200; building its meta
\* does not fault
C30_PerPageZeroAnswered ==
    \A p \in Procs :
        ((Answered(p, "list_users") \/ Answered(p, "list_posts"))
            /\ req[p].pagination.per_page = 0) =>
              /\ resp[p] # HandlerPanicked
              /\ IsListEnvelope(resp[p])
              /\ resp[p].meta.per_page = 0

====
